---- MODULE Spec2Model ----
(***************************************************************************)
(* PhyloClimb: the feeding / evolution engines, the grapple controller and *)
(* the ground / fall tracker of GameScene, as state machines.              *)
(*                                                                         *)
(* The repository holds two variants of the game.  The "chain" variant     *)
(* (src/src/scenes/GameScene.ts with FeedingSystem) unlocks evolutions     *)
(* automatically from food points; the "tree" variant                      *)
(* (src/unnamed/part_000 with EvolutionSystem and EvolutionSelectUI)       *)
(* lets the player pick a node of a parent tree in an overlay.  A run is   *)
(* a run of one variant: `variant` is chosen when the scene is built.      *)
(***************************************************************************)
EXTENDS Integers, Sequences, FiniteSets, TLC

NULL == "null"

Min(a, b) == IF a <= b THEN a ELSE b
Max(a, b) == IF a >= b THEN a ELSE b

(***************************************************************************)
(* Bounds of the model.                                                    *)
(***************************************************************************)
\* a pool total is followed up to this value
MaxPoints == 52
\* observers registered with FeedingSystem.onEvolve
MaxObservers == 2
\* scene.time.now is followed up to this value (ms)
MaxTime == 2000
\* the longest fall distance drawn for a landing (px)
MaxFall == 1100
\* a pool total is followed down to this many points below zero
MaxDebt == 12
\* scene.time.now is followed up to this value where platforms respawn (ms)
MaxBreakTime == 7200

(***************************************************************************)
(* constants.ts, and the literals of the handlers.                         *)
(***************************************************************************)
GRAPPLE_RANGE == 400
\* Math.PI / 3, in milliradians
GRAPPLE_AIM_CONE == 1047
REEL_SPEED == 3
MIN_ROPE_LENGTH == 30
MAX_HP == 100
FALL_THRESHOLD_SMALL == 100
FALL_THRESHOLD_MEDIUM == 300
FALL_THRESHOLD_LARGE == 600
FAKE_HOOK_DETACH_TIME == 1000
BREAKABLE_COLLAPSE_TIME == 800
BREAKABLE_RESPAWN_TIME == 5000
\* fadeTime of BreakablePlatformManager.update
BREAKABLE_FADE_TIME == 500
\* reelIn(60) / reelOut(60) of the wheel listener
WHEEL_REEL_AMOUNT == 60
RECOVERY_AMOUNT == 25

(***************************************************************************)
(* Static data of the chain variant: data/evolutionTree.ts, foodTypes.     *)
(***************************************************************************)
FoodTypeIds == {"dust", "sap"}

ALL_NODE_IDS == <<"stretch_1", "stretch_2", "sticky_1", "jump_1", "jump_2", "traction_1">>

ChainNodes == {ALL_NODE_IDS[i] : i \in 1..Len(ALL_NODE_IDS)}

evolutionTree ==
  [n \in ChainNodes |->
     CASE n = "stretch_1"  -> [branch |-> "dust", tier |-> 1, threshold |-> 10, prev |-> NULL]
       [] n = "stretch_2"  -> [branch |-> "dust", tier |-> 2, threshold |-> 25, prev |-> "stretch_1"]
       [] n = "sticky_1"   -> [branch |-> "dust", tier |-> 3, threshold |-> 50, prev |-> "stretch_2"]
       [] n = "jump_1"     -> [branch |-> "sap",  tier |-> 1, threshold |-> 10, prev |-> NULL]
       [] n = "jump_2"     -> [branch |-> "sap",  tier |-> 2, threshold |-> 25, prev |-> "jump_1"]
       [] n = "traction_1" -> [branch |-> "sap",  tier |-> 3, threshold |-> 50, prev |-> "jump_2"]]

\* amounts handed to consume: the point values of the two food types (1, 2)
\* and deposits that reach or cross one, two or three thresholds at once
Amounts == {1, 2, 10, 15, 50}

(***************************************************************************)
(* Static data of the tree variant.  The node table of that variant is not *)
(* among the sources; PlayerStats.ts names its nodes.  Every node has one  *)
(* parent or none, and the parent relation has no cycle.                   *)
(***************************************************************************)
TreeNodes == {"root", "tendon", "shell", "forelimb"}

RECURSIVE Ancestors(_, _, _)
Ancestors(par, n, fuel) ==
  IF par[n] = NULL \/ fuel = 0 THEN {}
  ELSE {par[n]} \cup Ancestors(par, par[n], fuel - 1)

TreeShapes ==
  {par \in [TreeNodes -> TreeNodes \cup {NULL}] :
     \A n \in TreeNodes : n \notin Ancestors(par, n, Cardinality(TreeNodes))}

\* the flat tree: every node is a root
NoTree == [n \in TreeNodes |-> NULL]

(***************************************************************************)
(* State.                                                                  *)
(***************************************************************************)
VARIABLES
  variant,           \* "chain" | "tree": which GameScene is running
  \* FeedingSystem
  points,            \* Record<FoodTypeId, number>
  activeEvolutions,  \* Set<EvolutionNodeId>
  evolveCallbacks,   \* EvolveCallback[]: the observers, by registration order
  lastNotified,      \* the calls cb(nodeId) made by the last consume: <<cb, nodeId>>
  badInsert,         \* nodes added to activeEvolutions while the pool was below their threshold
  \* EvolutionSystem / EvolutionSelectUI
  tree,              \* node -> parent (or NULL)
  unlockedNodes,     \* Set<EvolutionNodeId>
  container,         \* the overlay exists (container !== null)
  cards,             \* CardInfo[]: the node ids offered
  selectedIndex,     \* 0-based index of the highlighted card
  onComplete,        \* a completion callback is pending
  \* GameScene: grapple
  grappleState,      \* 'idle' | 'attached'
  grappleConstraint, \* the referenced constraint object (its identity) or NULL
  grappleTarget,     \* the HookPoint grappled to, or NULL
  ropeLength,
  world,             \* the constraints in matter.world: [id, bodyA, pointB, length]
  badRemove,         \* Composite.remove was called with a constraint that is not in the world
  \* GameScene: player
  playerBody,        \* identity of player.body
  currentStretchFactor, \* in tenths: 10, 15, 20
  isChargingJump,
  playerHP,
  isDead,
  recordRunCalls,    \* calls of encyclopediaSystem.recordRun since create(): <<cleared, remainingHP>>
  recoveryUsed,      \* the recovery points with used = true
  foodCollected,     \* the food items with collected = true (chain variant)
  evoCollected,      \* the evolution items with collected = true (tree variant)
  lastRestart,       \* <<n>>: the last restart ended a run with n recordRun calls; <<>>: no restart yet
  encyclopedia,      \* EncyclopediaSystem: the kind of the localStorage entry, the kind of this.data, and whether recordRun raised an error into the scene
  lastOpening,       \* <<o>>: the overlay's last opening: the cards offered, the nodes unlocked before it, the calls of its callback; <<>>: never opened
  \* GameScene: ground and fall tracking
  groundContacts,
  wasGrounded,
  peakY,
  lastFall,          \* the last landing seen by trackFalling, <<[dist, damage]>>, or <<>>
  lastJump,          \* the last Body.setVelocity of handleSpaceKey, <<[kind, grounded]>>, or <<>>
  \* gimmicks (tree variant)
  fakeHooks,         \* decoy -> [attachedTime, isTarget]
  breakables,        \* breakable platform -> [state, stateTime, playerOnIt]
  \* Phaser / Matter
  physicsPaused,     \* matter.world is paused
  resumeTimers,      \* pending delayedCall(300, resume) of onEvolutionGained
  encyclopediaVisible, \* EncyclopediaUI.visible
  now,               \* scene.time.now (ms)
  playerY,           \* player.y
  contacts,          \* surfaces whose collision pair with the player body is active
  counted            \* surfaces whose collisionstart incremented groundContacts and has not ended

feedVars == <<points, activeEvolutions, evolveCallbacks, lastNotified, badInsert>>
uiVars == <<tree, unlockedNodes, container, cards, selectedIndex, onComplete>>
grappleVars == <<grappleState, grappleConstraint, grappleTarget, ropeLength, world, badRemove>>
playerVars == <<playerBody, currentStretchFactor, isChargingJump, playerHP, isDead>>
fallVars == <<groundContacts, wasGrounded, peakY, lastFall, lastJump>>
gimmickVars == <<fakeHooks, breakables>>
runVars ==
  <<recordRunCalls, recoveryUsed, foodCollected, evoCollected, lastRestart, lastOpening,
    encyclopedia>>
\* the fields the scene's methods write, but for the pause flag
sceneRest == <<grappleVars, playerVars, fallVars, gimmickVars, runVars, resumeTimers>>
sceneVars == <<sceneRest, physicsPaused>>
envVars == <<encyclopediaVisible, now, playerY, contacts, counted>>
vars == <<variant, feedVars, uiVars, sceneVars, envVars>>

(***************************************************************************)
(* FeedingSystem (chain variant).                                          *)
(***************************************************************************)
\* One pass of the loop body of checkEvolutions, for node nodeId:
\* st = [active, log]; pts is the pool after the deposit, cbs the observers.
CheckNodeSkipsActiveTest(st, nodeId, foodTypeId, pts, cbs) ==
  LET node == evolutionTree[nodeId] IN
  IF node.branch # foodTypeId THEN st
  ELSE IF node.prev # NULL /\ node.prev \notin st.active THEN st
  ELSE IF pts[foodTypeId] >= node.threshold
       THEN [active |-> st.active \cup {nodeId},
             log    |-> st.log \o [i \in 1..Len(cbs) |-> <<cbs[i], nodeId>>]]
       ELSE st

CheckNodeStrictThreshold(st, nodeId, foodTypeId, pts, cbs) ==
  LET node == evolutionTree[nodeId] IN
  IF node.branch # foodTypeId THEN st
  ELSE IF nodeId \in st.active THEN st
  ELSE IF node.prev # NULL /\ node.prev \notin st.active THEN st
  ELSE IF pts[foodTypeId] > node.threshold
       THEN [active |-> st.active \cup {nodeId},
             log    |-> st.log \o [i \in 1..Len(cbs) |-> <<cbs[i], nodeId>>]]
       ELSE st

CheckNode(st, nodeId, foodTypeId, pts, cbs) ==
  LET node == evolutionTree[nodeId] IN
  IF node.branch # foodTypeId THEN st
  ELSE IF nodeId \in st.active THEN st
  ELSE IF node.prev # NULL /\ node.prev \notin st.active THEN st
  ELSE IF pts[foodTypeId] >= node.threshold
       THEN [active |-> st.active \cup {nodeId},
             log    |-> st.log \o [i \in 1..Len(cbs) |-> <<cbs[i], nodeId>>]]
       ELSE st

\* checkEvolutions: the loop over ALL_NODE_IDS, in list order
RECURSIVE CheckFrom(_, _, _, _, _)
CheckFrom(st, i, foodTypeId, pts, cbs) ==
  IF i > Len(ALL_NODE_IDS) THEN st
  ELSE CheckFrom(CheckNode(st, ALL_NODE_IDS[i], foodTypeId, pts, cbs),
                 i + 1, foodTypeId, pts, cbs)

checkEvolutions(active, foodTypeId, pts, cbs) ==
  CheckFrom([active |-> active, log |-> <<>>], 1, foodTypeId, pts, cbs)

\* consume(foodTypeId, amount): add the points, then check the evolutions.
\* badInsert records a node that enters the set below its threshold.
consume(foodTypeId, amount) ==
  LET pts == [points EXCEPT ![foodTypeId] = @ + amount]
      res == checkEvolutions(activeEvolutions, foodTypeId, pts, evolveCallbacks)
  IN /\ points' = pts
     /\ activeEvolutions' = res.active
     /\ lastNotified' = res.log
     /\ badInsert' = badInsert \cup
          {n \in res.active \ activeEvolutions :
             pts[evolutionTree[n].branch] < evolutionTree[n].threshold}
     /\ UNCHANGED evolveCallbacks

Consume ==
  /\ variant = "chain"
  /\ \E foodTypeId \in FoodTypeIds, amount \in Amounts :
       /\ points[foodTypeId] + amount <= MaxPoints
       /\ consume(foodTypeId, amount)
  /\ UNCHANGED <<variant, uiVars, sceneVars, envVars>>

\* onEvolve(callback)
OnEvolve ==
  /\ variant = "chain"
  /\ Len(evolveCallbacks) < MaxObservers
  /\ evolveCallbacks' = Append(evolveCallbacks, Len(evolveCallbacks) + 1)
  /\ UNCHANGED <<points, activeEvolutions, lastNotified, badInsert>>
  /\ UNCHANGED <<variant, uiVars, sceneVars, envVars>>

(***************************************************************************)
(* EvolutionSystem and EvolutionSelectUI (tree variant).                   *)
(***************************************************************************)
\* Object.entries(tree): the node ids in the order of the tree literal
TreeNodeOrder == <<"root", "tendon", "shell", "forelimb">>

\* getAvailable without the test of the parent
getAvailableIgnoresParent(par, unlocked) ==
  SelectSeq(TreeNodeOrder, LAMBDA n : n \notin unlocked)

\* the loop of getAvailable from entry i on: skip the unlocked, push the
\* nodes whose parent is null or unlocked
RECURSIVE availableFrom(_, _, _)
availableFrom(par, unlocked, i) ==
  IF i > Len(TreeNodeOrder) THEN <<>>
  ELSE LET n == TreeNodeOrder[i]
           rest == availableFrom(par, unlocked, i + 1)
       IN IF n \in unlocked THEN rest
          ELSE IF par[n] = NULL \/ par[n] \in unlocked THEN <<n>> \o rest
          ELSE rest

\* getAvailable(tree): the array the loop builds
getAvailable(par, unlocked) == availableFrom(par, unlocked, 1)

\* the sequences of pairwise distinct elements of S, of length k
DistinctSeqs(S, k) ==
  {s \in [1..k -> S] : \A i, j \in 1..k : i # j => s[i] # s[j]}

\* [a[i], a[j]] = [a[j], a[i]]
swap(a, i, j) == [a EXCEPT ![i] = a[j], ![j] = a[i]]

\* the loop of shuffle writing a[i] = a[j] only
RECURSIVE shuffleCopies(_, _)
shuffleCopies(a, i) ==
  IF i <= 1 THEN {a}
  ELSE UNION {shuffleCopies([a EXCEPT ![i] = a[j]], i - 1) : j \in 1..i}

\* shuffle(arr) from position i down (positions from 1): every outcome of
\* the Fisher-Yates loop, j being any position up to i
RECURSIVE shuffle(_, _)
shuffle(a, i) ==
  IF i <= 1 THEN {a}
  ELSE UNION {shuffle(swap(a, i, j), i - 1) : j \in 1..i}

\* shuffle(available).slice(0, 3)
Choices(available) ==
  {SubSeq(s, 1, Min(3, Len(s))) : s \in shuffle(available, Len(available))}

(***************************************************************************)
(* GameScene: static data.                                                 *)
(***************************************************************************)
\* hookPoints: the stage's hooks, then (tree variant) the decoys
RealHooks == {"h1", "h2"}
FakeHookIds == {"f1", "f2"}
hookPoints ==
  IF variant = "chain" THEN <<"h1", "h2">> ELSE <<"h1", "h2", "f1", "f2">>

HookSet == {hookPoints[i] : i \in 1..Len(hookPoints)}

\* how the player sees a hook when firing: the distance to it (px) and the
\* angle between the hook and the aim ray (milliradians)
Sightings ==
  {[dist |-> 20, angleDiff |-> 0], [dist |-> 150, angleDiff |-> 0],
   [dist |-> 150, angleDiff |-> 1200], [dist |-> 450, angleDiff |-> 0]}

\* frame times (ms) drawn for update()
Deltas == {500}

\* foodItemObjs in list order: items of Stage.foodItems, then n1, a dust that
\* spawnDustTick pushed at a random ground position
FoodItemList == <<"d1", "d2", "d3", "s1", "s2", "s3", "n1">>
FoodTypeOf ==
  [i \in {FoodItemList[k] : k \in 1..Len(FoodItemList)} |->
     IF i \in {"d1", "d2", "d3", "n1"} THEN "dust" ELSE "sap"]

\* the item lies within 40 px of the sensor body: no two items of the stage
\* are that close, but the spawned dust n1 landed within 40 px of the sap s1
FoodNear(sensor, item) == sensor = item \/ {sensor, item} = {"s1", "n1"}

\* surfaces that produce ground contacts: label 'platform' or 'breakable'
BreakableIds == {"b1", "b2"}
\* def.respawn of the stage's breakable platforms
Respawnable == {"b1"}
Surfaces == IF variant = "chain" THEN {"p1", "p2"} ELSE {"p1", "b1"}

\* recoveryPoints and evoItems of the stage
RecoveryIds == {"r1"}
EvoItemIds == {"e1"}

\* identities for the constraint objects alive at once
ConstraintIds == {"c1", "c2", "c3"}

\* effect values of the tree variant's node table (the table is not among
\* the sources; PlayerStats names the effects it reads)
TreeEffects ==
  [rootGrappleRange |-> 100, tendonGrappleRange |-> 100, forelimbReelSpeed |-> 2,
   rootMaxHp |-> 20, shellMaxHp |-> 30, shellFallDamageReductionPct |-> 30]

(***************************************************************************)
(* PlayerStats: resolved from the evolution state on every read.  `evo` is *)
(* the active set (chain) or the unlocked set (tree) at the time of the    *)
(* read.                                                                   *)
(***************************************************************************)
canGrapple(evo) == variant = "tree" \/ "traction_1" \in evo

canJump(evo) == variant = "tree" \/ "jump_1" \in evo

canChargedJump(evo) == variant = "chain" /\ "jump_2" \in evo

\* the range resolved without looking at the capability
grappleRangeOfAnyone(evo) ==
  IF variant = "chain" THEN 200
  ELSE GRAPPLE_RANGE
         + (IF "root" \in evo THEN TreeEffects.rootGrappleRange ELSE 0)
         + (IF "tendon" \in evo THEN TreeEffects.tendonGrappleRange ELSE 0)

grappleRange(evo) ==
  IF variant = "chain"
  THEN IF "traction_1" \in evo THEN 200 ELSE 0
  ELSE GRAPPLE_RANGE
         + (IF "root" \in evo THEN TreeEffects.rootGrappleRange ELSE 0)
         + (IF "tendon" \in evo THEN TreeEffects.tendonGrappleRange ELSE 0)

reelSpeed(evo) ==
  IF variant = "chain" THEN REEL_SPEED
  ELSE REEL_SPEED + (IF "forelimb" \in evo THEN TreeEffects.forelimbReelSpeed ELSE 0)

maxHp(evo) ==
  IF variant = "chain" THEN MAX_HP
  ELSE MAX_HP + (IF "root" \in evo THEN TreeEffects.rootMaxHp ELSE 0)
              + (IF "shell" \in evo THEN TreeEffects.shellMaxHp ELSE 0)

\* in percent
fallDamageMultiplier(evo) ==
  IF variant = "tree" /\ "shell" \in evo
  THEN 100 - TreeEffects.shellFallDamageReductionPct
  ELSE 100

\* in tenths
bodyStretchFactor(evo) ==
  IF "stretch_2" \in evo THEN 20
  ELSE IF "stretch_1" \in evo THEN 15
  ELSE 10

\* the evolution state PlayerStats reads
Evo == IF variant = "chain" THEN activeEvolutions ELSE unlockedNodes

(***************************************************************************)
(* EncyclopediaSystem.  The localStorage entry is absent, not JSON, the     *)
(* JSON of an EncyclopediaData (valid), or JSON of another shape: null, a   *)
(* number, an object without the fields.  this.data is the default empty    *)
(* state, or what JSON.parse returned.                                      *)
(***************************************************************************)
StoredContents == {"absent", "unparsable", "valid", "null", "number", "object"}

\* load(): the default when getItem returns null or JSON.parse throws, else
\* the parsed value as it is
load(stored) ==
  IF stored \in {"absent", "unparsable"} THEN "default" ELSE stored

\* new EncyclopediaSystem()
newEncyclopedia(stored) ==
  [stored |-> stored, data |-> load(stored), raised |-> FALSE]

(***************************************************************************)
(* The fields the scene's methods write, as one value: a method is an      *)
(* operator from such a value to the next, so that methods compose in the  *)
(* order the handlers call them.                                           *)
(***************************************************************************)
Scene ==
  [grappleState |-> grappleState, grappleConstraint |-> grappleConstraint,
   grappleTarget |-> grappleTarget, ropeLength |-> ropeLength,
   world |-> world, badRemove |-> badRemove,
   playerBody |-> playerBody, currentStretchFactor |-> currentStretchFactor,
   isChargingJump |-> isChargingJump, playerHP |-> playerHP, isDead |-> isDead,
   groundContacts |-> groundContacts, wasGrounded |-> wasGrounded,
   peakY |-> peakY, lastFall |-> lastFall, lastJump |-> lastJump,
   fakeHooks |-> fakeHooks, breakables |-> breakables,
   recordRunCalls |-> recordRunCalls, recoveryUsed |-> recoveryUsed,
   foodCollected |-> foodCollected,
   evoCollected |-> evoCollected, lastRestart |-> lastRestart,
   lastOpening |-> lastOpening, encyclopedia |-> encyclopedia,
   physicsPaused |-> physicsPaused, resumeTimers |-> resumeTimers]

SetScene(g) ==
  /\ grappleState' = g.grappleState
  /\ grappleConstraint' = g.grappleConstraint
  /\ grappleTarget' = g.grappleTarget
  /\ ropeLength' = g.ropeLength
  /\ world' = g.world
  /\ badRemove' = g.badRemove
  /\ playerBody' = g.playerBody
  /\ currentStretchFactor' = g.currentStretchFactor
  /\ isChargingJump' = g.isChargingJump
  /\ playerHP' = g.playerHP
  /\ isDead' = g.isDead
  /\ groundContacts' = g.groundContacts
  /\ wasGrounded' = g.wasGrounded
  /\ peakY' = g.peakY
  /\ lastFall' = g.lastFall
  /\ lastJump' = g.lastJump
  /\ fakeHooks' = g.fakeHooks
  /\ breakables' = g.breakables
  /\ recordRunCalls' = g.recordRunCalls
  /\ recoveryUsed' = g.recoveryUsed
  /\ foodCollected' = g.foodCollected
  /\ evoCollected' = g.evoCollected
  /\ lastRestart' = g.lastRestart
  /\ lastOpening' = g.lastOpening
  /\ encyclopedia' = g.encyclopedia
  /\ physicsPaused' = g.physicsPaused
  /\ resumeTimers' = g.resumeTimers

\* the fields as create() leaves them
NewScene ==
  [grappleState |-> "idle", grappleConstraint |-> NULL,
   grappleTarget |-> NULL, ropeLength |-> 0,
   world |-> {}, badRemove |-> FALSE,
   playerBody |-> 1, currentStretchFactor |-> 10,
   isChargingJump |-> FALSE, playerHP |-> MAX_HP, isDead |-> FALSE,
   groundContacts |-> 0, wasGrounded |-> TRUE,
   peakY |-> 0, lastFall |-> <<>>, lastJump |-> <<>>,
   fakeHooks |-> [f \in FakeHookIds |-> [attachedTime |-> 0, isTarget |-> FALSE]],
   breakables |-> [b \in BreakableIds |->
                     [state |-> "solid", stateTime |-> 0, playerOnIt |-> FALSE,
                      bodyAtHome |-> TRUE]],
   recordRunCalls |-> <<>>, recoveryUsed |-> {}, foodCollected |-> {},
   evoCollected |-> {},
   lastRestart |-> <<>>, lastOpening |-> <<>>,
   encyclopedia |-> newEncyclopedia("absent"),
   physicsPaused |-> FALSE, resumeTimers |-> 0]

(***************************************************************************)
(* EvolutionSelectUI (tree variant): the overlay over the scene.           *)
(***************************************************************************)
\* the scene after a close() that leaves the world paused
closeSceneStaysPaused(g, unlocked, pending) ==
  [g EXCEPT !.playerHP = IF pending THEN Min(g.playerHP, maxHp(unlocked))
                         ELSE g.playerHP,
            !.lastOpening = IF pending
                            THEN <<[g.lastOpening[1] EXCEPT !.completions = @ + 1]>>
                            ELSE g.lastOpening]

\* the scene after close(): physics resumed and, when a completion callback
\* is pending, the callback of handleEvoItemPickup run: HP clamped to maxHp
closeScene(g, unlocked, pending) ==
  [g EXCEPT !.physicsPaused = FALSE,
            !.playerHP = IF pending THEN Min(g.playerHP, maxHp(unlocked))
                         ELSE g.playerHP,
            !.lastOpening = IF pending
                            THEN <<[g.lastOpening[1] EXCEPT !.completions = @ + 1]>>
                            ELSE g.lastOpening]

\* close(): drop the listeners and the overlay, resume physics, complete
close ==
  /\ container' = FALSE
  /\ cards' = <<>>
  /\ onComplete' = FALSE

\* what is remembered of an opening that offers the nodes in offered
opening(offered) ==
  <<[offered |-> offered, before |-> unlockedNodes, completions |-> 0]>>

\* show(onComplete) on scene g; the scene's callback is the one
\* handleEvoItemPickup passes
ShowOn(g) ==
  IF container
  THEN /\ UNCHANGED <<container, cards, selectedIndex, onComplete>>
       /\ SetScene(g)
  ELSE LET available == getAvailable(tree, unlockedNodes) IN
       IF Len(available) = 0
       THEN /\ close
            /\ selectedIndex' = 0
            /\ SetScene(closeScene([g EXCEPT !.lastOpening = opening({})],
                                    unlockedNodes, TRUE))
       ELSE /\ \E choices \in Choices(available) :
                 /\ cards' = choices
                 /\ SetScene([g EXCEPT !.physicsPaused = TRUE,
                                       !.lastOpening = opening({choices[i] : i \in DOMAIN choices})])
            /\ selectedIndex' = 0
            /\ onComplete' = TRUE
            /\ container' = TRUE

Show ==
  /\ variant = "tree"
  /\ ShowOn(Scene)
  /\ UNCHANGED <<tree, unlockedNodes>>
  /\ UNCHANGED <<variant, feedVars, envVars>>

\* the key listeners exist from the end of show to close
OnLeft ==
  /\ variant = "tree" /\ container
  /\ Len(cards) # 0
  /\ selectedIndex' = (selectedIndex - 1 + Len(cards)) % Len(cards)
  /\ UNCHANGED <<tree, unlockedNodes, container, cards, onComplete, physicsPaused>>
  /\ UNCHANGED <<variant, feedVars, sceneRest, envVars>>

OnRight ==
  /\ variant = "tree" /\ container
  /\ Len(cards) # 0
  /\ selectedIndex' = (selectedIndex + 1) % Len(cards)
  /\ UNCHANGED <<tree, unlockedNodes, container, cards, onComplete, physicsPaused>>
  /\ UNCHANGED <<variant, feedVars, sceneRest, envVars>>

\* EvolutionSystem.unlock(nodeId)
unlock(nodeId) == unlockedNodes' = unlockedNodes \cup {nodeId}

OnConfirm ==
  /\ variant = "tree" /\ container
  /\ Len(cards) # 0
  /\ unlock(cards[selectedIndex + 1])
  /\ close
  /\ SetScene(closeScene(Scene, unlockedNodes \cup {cards[selectedIndex + 1]}, onComplete))
  /\ UNCHANGED <<tree, selectedIndex>>
  /\ UNCHANGED <<variant, feedVars, envVars>>

OnSkip ==
  /\ variant = "tree" /\ container
  /\ close
  /\ SetScene(closeScene(Scene, unlockedNodes, onComplete))
  /\ UNCHANGED <<tree, unlockedNodes, selectedIndex>>
  /\ UNCHANGED <<variant, feedVars, envVars>>

(***************************************************************************)
(* FakeHookManager.                                                        *)
(***************************************************************************)
\* the decoys in list order
fakeHookList == <<"f1", "f2">>

\* onGrappleAttach(x, y) that marks the first decoy whatever the target is
onGrappleAttachAnyTarget(hooks, target, t) ==
  [hooks EXCEPT ![fakeHookList[1]] = [attachedTime |-> t, isTarget |-> TRUE]]

\* onGrappleAttach(x, y): the first decoy at the target's coordinates
onGrappleAttach(hooks, target, t) ==
  IF target \in FakeHookIds
  THEN [hooks EXCEPT ![target] = [attachedTime |-> t, isTarget |-> TRUE]]
  ELSE hooks

\* onGrappleRelease() that clears the flag and keeps the attach time
onGrappleReleaseKeepsTime(hooks) ==
  [f \in FakeHookIds |-> [hooks[f] EXCEPT !.isTarget = FALSE]]

\* onGrappleRelease(): every decoy that is a target is reset
onGrappleRelease(hooks) ==
  [f \in FakeHookIds |->
     IF hooks[f].isTarget THEN [attachedTime |-> 0, isTarget |-> FALSE] ELSE hooks[f]]

\* the decoy update() that detaches only after more than the delay
DetachingHookStrict(hooks, t) ==
  LET due == {i \in 1..Len(fakeHookList) :
                LET h == hooks[fakeHookList[i]] IN
                  /\ h.isTarget /\ h.attachedTime # 0
                  /\ t - h.attachedTime > FAKE_HOOK_DETACH_TIME}
  IN IF due = {} THEN NULL
     ELSE fakeHookList[CHOOSE i \in due : \A j \in due : i <= j]

\* the decoy update() detaches: the first one in list order that is a
\* target, has a non-zero attachedTime and has been attached for the delay
DetachingHook(hooks, t) ==
  LET due == {i \in 1..Len(fakeHookList) :
                LET h == hooks[fakeHookList[i]] IN
                  /\ h.isTarget /\ h.attachedTime # 0
                  /\ t - h.attachedTime >= FAKE_HOOK_DETACH_TIME}
  IN IF due = {} THEN NULL
     ELSE fakeHookList[CHOOSE i \in due : \A j \in due : i <= j]

(***************************************************************************)
(* GameScene: grapple.                                                     *)
(***************************************************************************)
InWorld(g, id) == \E c \in g.world : c.id = id

\* Composite.remove(world, constraint)
RemoveConstraint(g, id) ==
  [g EXCEPT !.world = {c \in g.world : c.id # id},
            !.badRemove = g.badRemove \/ ~InWorld(g, id)]

\* Constraint.create(...) then Composite.add(world, constraint): a new object
NewConstraintId(g) ==
  CHOOSE i \in ConstraintIds : i # g.grappleConstraint /\ ~InWorld(g, i)

\* releaseGrapple that removes the constraint and leaves the anchor set
releaseGrappleKeepsAnchor(g) ==
  LET g1 == IF g.grappleConstraint # NULL
            THEN [RemoveConstraint(g, g.grappleConstraint)
                    EXCEPT !.grappleConstraint = NULL]
            ELSE g
      g2 == [g1 EXCEPT !.grappleState = "idle"]
  IN IF variant = "tree"
     THEN [g2 EXCEPT !.fakeHooks = onGrappleRelease(g2.fakeHooks)]
     ELSE g2

releaseGrappleKeepsConstraint(g) ==
  LET g1 == [g EXCEPT !.grappleConstraint = NULL,
                      !.grappleTarget = NULL, !.grappleState = "idle"]
  IN IF variant = "tree"
     THEN [g1 EXCEPT !.fakeHooks = onGrappleRelease(g1.fakeHooks)]
     ELSE g1

releaseGrapple(g) ==
  LET g1 == IF g.grappleConstraint # NULL
            THEN [RemoveConstraint(g, g.grappleConstraint)
                    EXCEPT !.grappleConstraint = NULL]
            ELSE g
      g2 == [g1 EXCEPT !.grappleTarget = NULL, !.grappleState = "idle"]
  IN IF variant = "tree"
     THEN [g2 EXCEPT !.fakeHooks = onGrappleRelease(g2.fakeHooks)]
     ELSE g2

\* angleDiff * 200 + dist * 0.5, times 10 (angleDiff in milliradians)
Score(s) == 2 * s.angleDiff + 5 * s.dist

\* the two tests of findBestHook without the one of the angle
QualifiesAtAnyAngle(s, range) == s.dist <= range

Qualifies(s, range) == s.dist <= range /\ s.angleDiff <= GRAPPLE_AIM_CONE

\* findBestHook whose loop keeps the last hook of the least score
findBestHookLastOfEqual(view, evo) ==
  IF ~canGrapple(evo) THEN NULL
  ELSE LET ok == {i \in 1..Len(hookPoints) :
                    Qualifies(view[hookPoints[i]], grappleRange(evo))}
       IN IF ok = {} THEN NULL
          ELSE hookPoints[CHOOSE i \in ok :
                 \A j \in ok :
                   \/ Score(view[hookPoints[i]]) < Score(view[hookPoints[j]])
                   \/ (Score(view[hookPoints[i]]) = Score(view[hookPoints[j]]) /\ i >= j)]

\* findBestHook: the loop keeps the first hook of the least score
findBestHook(view, evo) ==
  IF ~canGrapple(evo) THEN NULL
  ELSE LET ok == {i \in 1..Len(hookPoints) :
                    Qualifies(view[hookPoints[i]], grappleRange(evo))}
       IN IF ok = {} THEN NULL
          ELSE hookPoints[CHOOSE i \in ok :
                 \A j \in ok :
                   \/ Score(view[hookPoints[i]]) < Score(view[hookPoints[j]])
                   \/ (Score(view[hookPoints[i]]) = Score(view[hookPoints[j]]) /\ i <= j)]

\* attachGrapple(hook), the player being at distance dist of the hook
attachGrapple(g, hook, dist, t) ==
  LET id == NewConstraintId(g)
      g1 == [g EXCEPT !.ropeLength = dist,
                      !.grappleTarget = hook,
                      !.grappleState = "attached",
                      !.grappleConstraint = id,
                      !.world = g.world \cup
                        {[id |-> id, bodyA |-> g.playerBody, pointB |-> hook, length |-> dist]}]
  IN IF variant = "tree"
     THEN [g1 EXCEPT !.fakeHooks = onGrappleAttach(g1.fakeHooks, hook, t)]
     ELSE g1

fireGrapple(g, view, evo, t) ==
  LET best == findBestHook(view, evo) IN
  IF best # NULL THEN attachGrapple(g, best, view[best].dist, t) ELSE g

\* a reel that writes ropeLength and not the constraint
SetRopeLengthOnly(g, len) == [g EXCEPT !.ropeLength = len]

\* grappleConstraint.length = ropeLength
SetConstraintLength(g, len) ==
  [g EXCEPT !.ropeLength = len,
            !.world = {IF c.id = g.grappleConstraint THEN [c EXCEPT !.length = len] ELSE c :
                         c \in g.world}]

reelIn(g, amount) ==
  IF g.grappleConstraint = NULL THEN g
  ELSE SetConstraintLength(g, Max(MIN_ROPE_LENGTH, g.ropeLength - amount))

reelOut(g, amount, evo) ==
  IF g.grappleConstraint = NULL THEN g
  ELSE SetConstraintLength(g, Min(grappleRange(evo), g.ropeLength + amount))

\* reelSpeed * (delta / 16.67), to the nearest pixel
ReelAmount(delta, evo) == (reelSpeed(evo) * delta * 100 + 833) \div 1667

\* handleGrappleReel(delta), with the up keys (W, up) and down keys (S, down)
handleGrappleReel(g, delta, up, down, evo) ==
  IF g.grappleState # "attached" THEN g
  ELSE LET g1 == IF up THEN reelIn(g, ReelAmount(delta, evo)) ELSE g
       IN IF down THEN reelOut(g1, ReelAmount(delta, evo), evo) ELSE g1

(***************************************************************************)
(* GameScene: game state, health and damage.                               *)
(***************************************************************************)
\* encyclopediaSystem.recordRun(unlocked, cleared, remainingHP): the call is
\* remembered; this.data.totalRuns++ raises a TypeError on null and (strict
\* mode) on a primitive, this.data.discoveredNodes.includes on an object
\* without that array once a node is passed; otherwise save() stores the data
recordRun(g, cleared, remainingHP) ==
  LET e == g.encyclopedia
      raises == \/ e.data \in {"null", "number"}
                \/ e.data = "object" /\ Evo # {}
  IN [g EXCEPT !.recordRunCalls =
                 Append(@, [cleared |-> cleared, remainingHP |-> remainingHP]),
               !.encyclopedia =
                 IF raises THEN [e EXCEPT !.raised = TRUE]
                 ELSE IF e.data = "object" THEN [e EXCEPT !.stored = "object"]
                 ELSE [e EXCEPT !.stored = "valid", !.data = "valid"]]

\* die() that leaves the grapple as it is
dieKeepsGrapple(g) ==
  IF g.isDead THEN g
  ELSE recordRun([g EXCEPT !.isDead = TRUE], FALSE, 0)

\* die(): the run ends; recordRun takes the evolutions as they are
die(g) ==
  IF g.isDead THEN g
  ELSE recordRun(releaseGrapple([g EXCEPT !.isDead = TRUE]), FALSE, 0)

\* handleVictory(): the same flag ends the run
handleVictory(g) ==
  IF g.isDead THEN g
  ELSE recordRun(releaseGrapple([g EXCEPT !.isDead = TRUE]), TRUE, g.playerHP)

\* Math.round(x) for x = num / den >= 0
Round(num, den) == (2 * num + den) \div (2 * den)

\* applyFallDamage whose middle band starts again from 5 at FALL_THRESHOLD_MEDIUM
fallDamageMediumFromFive(fallPixels, mult) ==
  IF fallPixels < FALL_THRESHOLD_MEDIUM
  THEN Round((5 * (FALL_THRESHOLD_MEDIUM - FALL_THRESHOLD_SMALL)
                + 5 * (fallPixels - FALL_THRESHOLD_SMALL)) * mult,
             (FALL_THRESHOLD_MEDIUM - FALL_THRESHOLD_SMALL) * 100)
  ELSE IF fallPixels < FALL_THRESHOLD_LARGE
  THEN Round((5 * (FALL_THRESHOLD_LARGE - FALL_THRESHOLD_MEDIUM)
                + 25 * (fallPixels - FALL_THRESHOLD_MEDIUM)) * mult,
             (FALL_THRESHOLD_LARGE - FALL_THRESHOLD_MEDIUM) * 100)
  ELSE Round((35 * 400 + 65 * Min(400, fallPixels - FALL_THRESHOLD_LARGE)) * mult,
             400 * 100)

\* the damage of applyFallDamage: Math.round(damage * multiplier), with
\* damage = 5 + t * 5, 10 + t * 25 or 35 + t * 65 by band (mult in percent)
fallDamage(fallPixels, mult) ==
  IF fallPixels < FALL_THRESHOLD_MEDIUM
  THEN Round((5 * (FALL_THRESHOLD_MEDIUM - FALL_THRESHOLD_SMALL)
                + 5 * (fallPixels - FALL_THRESHOLD_SMALL)) * mult,
             (FALL_THRESHOLD_MEDIUM - FALL_THRESHOLD_SMALL) * 100)
  ELSE IF fallPixels < FALL_THRESHOLD_LARGE
  THEN Round((10 * (FALL_THRESHOLD_LARGE - FALL_THRESHOLD_MEDIUM)
                + 25 * (fallPixels - FALL_THRESHOLD_MEDIUM)) * mult,
             (FALL_THRESHOLD_LARGE - FALL_THRESHOLD_MEDIUM) * 100)
  ELSE Round((35 * 400 + 65 * Min(400, fallPixels - FALL_THRESHOLD_LARGE)) * mult,
             400 * 100)

\* applyFallDamage that subtracts without Math.max(0, ...)
applyFallDamageNoFloor(g, fallPixels, evo) ==
  LET damage == fallDamage(fallPixels, fallDamageMultiplier(evo))
      g1 == [g EXCEPT !.playerHP = g.playerHP - damage,
                      !.lastFall = <<[dist |-> fallPixels, damage |-> damage]>>]
  IN IF g1.playerHP <= 0 THEN die(g1) ELSE g1

\* applyFallDamage that calls die() only below 0
applyFallDamageStrictDeath(g, fallPixels, evo) ==
  LET damage == fallDamage(fallPixels, fallDamageMultiplier(evo))
      g1 == [g EXCEPT !.playerHP = Max(0, g.playerHP - damage),
                      !.lastFall = <<[dist |-> fallPixels, damage |-> damage]>>]
  IN IF g1.playerHP < 0 THEN die(g1) ELSE g1

applyFallDamage(g, fallPixels, evo) ==
  LET damage == fallDamage(fallPixels, fallDamageMultiplier(evo))
      g1 == [g EXCEPT !.playerHP = Max(0, g.playerHP - damage),
                      !.lastFall = <<[dist |-> fallPixels, damage |-> damage]>>]
  IN IF g1.playerHP <= 0 THEN die(g1) ELSE g1

\* trackFalling() that does not reset the peak when the player leaves the
\* ground
trackFallingKeepsPeak(g, y, evo) ==
  LET grounded == g.groundContacts > 0
      g1 == IF ~grounded /\ y < g.peakY THEN [g EXCEPT !.peakY = y] ELSE g
      fallDistance == y - g1.peakY
      g2 == IF grounded /\ ~g1.wasGrounded
            THEN IF fallDistance > FALL_THRESHOLD_SMALL
                 THEN applyFallDamage(g1, fallDistance, evo)
                 ELSE [g1 EXCEPT !.lastFall = <<[dist |-> fallDistance, damage |-> 0]>>]
            ELSE g1
  IN [g2 EXCEPT !.wasGrounded = grounded]

\* trackFalling(), the player being at height y
trackFalling(g, y, evo) ==
  LET grounded == g.groundContacts > 0
      g1 == IF ~grounded /\ y < g.peakY THEN [g EXCEPT !.peakY = y] ELSE g
      fallDistance == y - g1.peakY
      g2 == IF grounded /\ ~g1.wasGrounded
            THEN IF fallDistance > FALL_THRESHOLD_SMALL
                 THEN applyFallDamage(g1, fallDistance, evo)
                 ELSE [g1 EXCEPT !.lastFall = <<[dist |-> fallDistance, damage |-> 0]>>]
            ELSE g1
      g3 == IF ~grounded /\ g2.wasGrounded THEN [g2 EXCEPT !.peakY = y] ELSE g2
  IN [g3 EXCEPT !.wasGrounded = grounded]

(***************************************************************************)
(* GameScene: the space key.  A jump sets the body's velocity, which is    *)
(* the physics engine's state; lastJump keeps which jump it was and whether *)
(* the player was grounded in that tick.                                   *)
(***************************************************************************)
\* MatterLib.Body.setVelocity(body, {x, y: PLAYER_JUMP_VELOCITY [* multiplier]})
Jump(g, kind) ==
  [g EXCEPT !.lastJump = <<[kind |-> kind, grounded |-> g.groundContacts > 0]>>]

\* handleSpaceKey(): justDown is what the first JustDown(keySpace) of the
\* tick returns; the call clears the key's flag, so the second call of the
\* chain scene's regular jump returns false in the same tick
handleSpaceKey(g, justDown, isDown, evo) ==
  IF variant = "tree"
  THEN IF ~justDown THEN g
       ELSE IF g.grappleState = "attached" THEN releaseGrapple(g)
       ELSE IF g.groundContacts > 0 THEN Jump(g, "plain")
       ELSE g
  ELSE IF justDown /\ g.grappleState = "attached" THEN releaseGrapple(g)
  ELSE IF ~canJump(evo) THEN g
  ELSE LET grounded == g.groundContacts > 0
           justDownAgain == FALSE
           g1 == IF canChargedJump(evo) /\ grounded /\ isDown
                 THEN [g EXCEPT !.isChargingJump = TRUE] ELSE g
       IN IF g1.isChargingJump /\ ~isDown
          THEN Jump([g1 EXCEPT !.isChargingJump = FALSE], "charged")
          ELSE LET g2 == IF ~canChargedJump(evo) /\ justDownAgain /\ grounded
                         THEN Jump(g1, "plain") ELSE g1
               IN IF g2.isChargingJump /\ ~grounded
                  THEN [g2 EXCEPT !.isChargingJump = FALSE]
                  ELSE g2

(***************************************************************************)
(* GameScene: food and evolution (chain variant).                          *)
(***************************************************************************)
\* the body swap that leaves the constraint on the removed body
applyStretchEvolutionKeepsConstraint(g, evo) ==
  LET newStretch == bodyStretchFactor(evo) IN
  IF newStretch = g.currentStretchFactor THEN g
  ELSE [g EXCEPT !.playerBody = g.playerBody + 1,
                 !.currentStretchFactor = newStretch]

\* applyStretchEvolution(): a new body replaces the player's; an attached
\* grapple gets a new constraint on the new body
applyStretchEvolution(g, evo) ==
  LET newStretch == bodyStretchFactor(evo) IN
  IF newStretch = g.currentStretchFactor THEN g
  ELSE LET g1 == [g EXCEPT !.playerBody = g.playerBody + 1,
                           !.currentStretchFactor = newStretch]
       IN IF g1.grappleState = "attached" /\ g1.grappleTarget # NULL
          THEN LET g2 == IF g1.grappleConstraint # NULL
                         THEN RemoveConstraint(g1, g1.grappleConstraint) ELSE g1
                   id == NewConstraintId(g2)
               IN [g2 EXCEPT !.grappleConstraint = id,
                             !.world = g2.world \cup
                               {[id |-> id, bodyA |-> g2.playerBody,
                                 pointB |-> g2.grappleTarget, length |-> g2.ropeLength]}]
          ELSE g1

applyEvolutionEffects(g, nodeId, evo) ==
  IF nodeId \in {"stretch_1", "stretch_2"} THEN applyStretchEvolution(g, evo) ELSE g

\* onEvolutionGained(nodeId): pause, schedule the resume, apply the effects
onEvolutionGained(g, nodeId, evo) ==
  applyEvolutionEffects(
    [g EXCEPT !.physicsPaused = TRUE, !.resumeTimers = g.resumeTimers + 1],
    nodeId, evo)

\* the scene's observer run over the notifications of one consume call, each
\* with the active set as it is when the observer is called
RECURSIVE RunObservers(_, _, _, _)
RunObservers(g, log, i, active) ==
  IF i > Len(log) THEN g
  ELSE LET evo == active \cup {log[i][2]} IN
       RunObservers(onEvolutionGained(g, log[i][2], evo), log, i + 1, evo)

(***************************************************************************)
(* GimmickManager.update (tree variant).                                   *)
(***************************************************************************)
\* update() for one platform, without the test of def.respawn
breakableUpdateAnyRespawns(p, respawn, t) ==
  LET p1 == IF p.state = "warning" /\ t - p.stateTime >= BREAKABLE_COLLAPSE_TIME
            THEN [p EXCEPT !.state = "collapsed", !.stateTime = t,
                           !.bodyAtHome = FALSE]
            ELSE p
      p2 == IF p1.state = "collapsed" /\ t - p1.stateTime >= BREAKABLE_RESPAWN_TIME
            THEN [p1 EXCEPT !.state = "respawning", !.stateTime = t] ELSE p1
  IN IF p2.state = "respawning" /\ t - p2.stateTime >= BREAKABLE_FADE_TIME
     THEN [p2 EXCEPT !.state = "solid", !.bodyAtHome = TRUE] ELSE p2

\* update() for one platform, the collapse leaving the body where it is
breakableUpdateLeavesBody(p, respawn, t) ==
  LET p1 == IF p.state = "warning" /\ t - p.stateTime >= BREAKABLE_COLLAPSE_TIME
            THEN [p EXCEPT !.state = "collapsed", !.stateTime = t]
            ELSE p
      p2 == IF p1.state = "collapsed" /\ respawn
               /\ t - p1.stateTime >= BREAKABLE_RESPAWN_TIME
            THEN [p1 EXCEPT !.state = "respawning", !.stateTime = t] ELSE p1
  IN IF p2.state = "respawning" /\ t - p2.stateTime >= BREAKABLE_FADE_TIME
     THEN [p2 EXCEPT !.state = "solid", !.bodyAtHome = TRUE] ELSE p2

\* BreakablePlatformManager.update(), for one platform; respawn: def.respawn
breakableUpdate(p, respawn, t) ==
  LET p1 == IF p.state = "warning" /\ t - p.stateTime >= BREAKABLE_COLLAPSE_TIME
            THEN [p EXCEPT !.state = "collapsed", !.stateTime = t,
                           !.bodyAtHome = FALSE]
            ELSE p
      p2 == IF p1.state = "collapsed" /\ respawn
               /\ t - p1.stateTime >= BREAKABLE_RESPAWN_TIME
            THEN [p1 EXCEPT !.state = "respawning", !.stateTime = t] ELSE p1
  IN IF p2.state = "respawning" /\ t - p2.stateTime >= BREAKABLE_FADE_TIME
     THEN [p2 EXCEPT !.state = "solid", !.bodyAtHome = TRUE] ELSE p2

\* the platform's body is at its stage position, not at (-9999, -9999)
BodyInPlace(p) == p.bodyAtHome

\* fakeHooks.update() with its onDetach callback, then breakables.update()
gimmicksUpdate(g, t) ==
  LET f == DetachingHook(g.fakeHooks, t)
      g1 == IF f = NULL THEN g
            ELSE releaseGrapple(
                   [g EXCEPT !.fakeHooks[f] = [attachedTime |-> 0, isTarget |-> FALSE]])
  IN [g1 EXCEPT !.breakables = [b \in BreakableIds |->
                           breakableUpdate(g1.breakables[b], b \in Respawnable, t)]]

(***************************************************************************)
(* Handlers.                                                               *)
(***************************************************************************)
\* scene.restart(): create() builds the scene again; ropeLength is a field
\* that create() does not reset
restartFrom(g, time) ==
  /\ SetScene([NewScene EXCEPT !.ropeLength = g.ropeLength,
                               !.lastRestart = <<Len(g.recordRunCalls)>>,
                               !.encyclopedia = newEncyclopedia(g.encyclopedia.stored)])
  /\ points' = [t \in FoodTypeIds |-> 0]
  /\ activeEvolutions' = {}
  /\ evolveCallbacks' = IF variant = "chain" THEN <<1>> ELSE <<>>
  /\ lastNotified' = <<>>
  /\ badInsert' = {}
  /\ unlockedNodes' = {}
  /\ container' = FALSE
  /\ cards' = <<>>
  /\ selectedIndex' = 0
  /\ onComplete' = FALSE
  /\ encyclopediaVisible' = FALSE
  /\ playerY' = 0
  /\ contacts' = {}
  /\ counted' = {}
  /\ now' = time
  /\ UNCHANGED <<variant, tree>>

\* this.scene.restart()
restartGame == restartFrom(Scene, now)

\* the pointerdown listener; buttons: "left", "right" or "both"
PointerDown(buttons, view) ==
  IF variant = "chain" /\ encyclopediaVisible THEN UNCHANGED vars
  ELSE IF isDead THEN restartGame
  ELSE LET left == buttons \in {"left", "both"}
           right == buttons \in {"right", "both"}
           returned == left /\ ~canGrapple(Evo)
           g1 == IF left /\ ~returned
                 THEN IF grappleState = "attached"
                      THEN releaseGrapple(Scene)
                      ELSE fireGrapple(Scene, view, Evo, now)
                 ELSE Scene
           g2 == IF right /\ ~returned THEN releaseGrapple(g1) ELSE g1
       IN /\ SetScene(g2)
          /\ UNCHANGED <<variant, feedVars, uiVars, envVars>>

\* the wheel listener; up: deltaY < 0
Wheel(up) ==
  /\ SetScene(IF grappleState # "attached" THEN Scene
              ELSE IF up THEN reelIn(Scene, WHEEL_REEL_AMOUNT)
              ELSE reelOut(Scene, WHEEL_REEL_AMOUNT, Evo))
  /\ UNCHANGED <<variant, feedVars, uiVars, envVars>>

\* EncyclopediaUI.toggle(), on Tab
ToggleEncyclopedia ==
  /\ encyclopediaVisible' = ~encyclopediaVisible
  /\ UNCHANGED <<now, playerY, contacts, counted>>
  /\ UNCHANGED <<variant, feedVars, uiVars, sceneVars>>

\* update(time, delta) without the R key: the keys held, the player at y
Update(delta, justDown, isDown, up, down, y) ==
  /\ now' = IF variant = "tree" THEN now + delta ELSE now
  /\ playerY' = y
  /\ IF isDead \/ (variant = "chain" /\ encyclopediaVisible)
     THEN UNCHANGED sceneVars
     ELSE LET g1 == handleSpaceKey(Scene, justDown, isDown, Evo)
              g2 == handleGrappleReel(g1, delta, up, down, Evo)
              g3 == trackFalling(g2, y, Evo)
          IN SetScene(IF variant = "tree" THEN gimmicksUpdate(g3, now') ELSE g3)
  /\ UNCHANGED <<encyclopediaVisible, contacts, counted>>
  /\ UNCHANGED <<variant, feedVars, uiVars>>

\* update() of the chain variant with R held
UpdateRestart ==
  /\ variant = "chain"
  /\ restartGame

\* update() with R held.  The chain scene restarts at once.  The tree scene
\* reads the key at the end of trackFalling only, which update() reaches in
\* a live run: the restart happens when this very tick's landing killed the
\* player
UpdateHoldingR(delta, y) ==
  IF variant = "chain" THEN restartGame
  ELSE LET g == trackFalling(
                  handleGrappleReel(handleSpaceKey(Scene, FALSE, FALSE, Evo),
                                    delta, FALSE, FALSE, Evo),
                  y, Evo)
       IN IF ~isDead /\ g.isDead
          THEN restartFrom(g, now + delta)
          ELSE Update(delta, FALSE, FALSE, FALSE, FALSE, y)

\* the delayedCall(300) of onEvolutionGained fires
ResumeTimer ==
  /\ resumeTimers > 0
  /\ SetScene([Scene EXCEPT !.resumeTimers = resumeTimers - 1,
                            !.physicsPaused = IF isDead THEN physicsPaused ELSE FALSE])
  /\ UNCHANGED <<variant, feedVars, uiVars, envVars>>

(***************************************************************************)
(* The collisionstart / collisionend listeners, pair by pair.  The engine  *)
(* reports pairs only while the world runs.                                *)
(***************************************************************************)
foodPoints(foodTypeId) == IF foodTypeId = "dust" THEN 1 ELSE 2

IsBreakable(s) == s \in BreakableIds

\* onPlayerContact without the test of the state
onPlayerContactAnyState(bs, s, t) ==
  IF IsBreakable(s)
  THEN [bs EXCEPT ![s].state = "warning", ![s].stateTime = t, ![s].playerOnIt = TRUE]
  ELSE bs

\* breakables.onPlayerContact(body)
onPlayerContact(bs, s, t) ==
  IF IsBreakable(s) /\ bs[s].state = "solid"
  THEN [bs EXCEPT ![s].state = "warning", ![s].stateTime = t, ![s].playerOnIt = TRUE]
  ELSE bs

\* breakables.onPlayerLeave(body)
onPlayerLeave(bs, s) ==
  IF IsBreakable(s) THEN [bs EXCEPT ![s].playerOnIt = FALSE] ELSE bs

\* the count after a contact end, without the floor
groundContactsAfterEndNoFloor(n) == n - 1

\* the count after a contact end: Math.max(0, groundContacts - 1)
groundContactsAfterEnd(n) == Max(0, n - 1)

\* collisionstart with a platform / breakable; above: the player body's
\* position.y is less than the surface's
CollisionStartSurface(s, above) ==
  /\ ~physicsPaused
  /\ s \in (Surfaces \cup BreakableIds) \ contacts
  /\ IsBreakable(s) => variant = "tree" /\ BodyInPlace(breakables[s])
  /\ SetScene([Scene EXCEPT
       !.groundContacts = IF above THEN groundContacts + 1 ELSE groundContacts,
       !.breakables = onPlayerContact(breakables, s, now)])
  /\ contacts' = contacts \cup {s}
  /\ counted' = IF above THEN counted \cup {s} ELSE counted
  /\ UNCHANGED <<encyclopediaVisible, now, playerY>>
  /\ UNCHANGED <<variant, feedVars, uiVars>>

\* the collisionend listener's work for a platform / breakable pair
collisionEndSurface(s) ==
  /\ SetScene([Scene EXCEPT
       !.groundContacts = groundContactsAfterEnd(groundContacts),
       !.breakables = onPlayerLeave(breakables, s)])
  /\ contacts' = contacts \ {s}
  /\ counted' = counted \ {s}
  /\ UNCHANGED <<encyclopediaVisible, now, playerY>>
  /\ UNCHANGED <<variant, feedVars, uiVars>>

\* collisionend of an active pair
CollisionEndSurface(s) ==
  /\ ~physicsPaused
  /\ s \in contacts
  /\ collisionEndSurface(s)

\* collisionend delivered again, or for a pair that never began
SpuriousCollisionEnd(s) ==
  /\ s \in Surfaces \ contacts
  /\ collisionEndSurface(s)

\* the engine's pairs after a handler that left the scene in g: when
\* applyStretchEvolution replaced the player body (world.remove(body)), the
\* pairs of the removed body are over; their collisionend carries the removed
\* body, which the listener does not take for the player, so groundContacts
\* keeps what they had added
PairsAfter(g) ==
  /\ contacts' = IF g.playerBody = playerBody THEN contacts ELSE {}
  /\ counted' = IF g.playerBody = playerBody THEN counted ELSE {}
  /\ UNCHANGED <<encyclopediaVisible, now, playerY>>

\* collisionstart with a food sensor (chain variant) on a stage with as many
\* items as the run needs, the items themselves not being followed:
\* handleFoodPickup finds an item of type foodTypeId that is not collected yet
CollisionStartFood(foodTypeId) ==
  /\ variant = "chain"
  /\ ~physicsPaused
  /\ points[foodTypeId] + foodPoints(foodTypeId) <= MaxPoints
  /\ consume(foodTypeId, foodPoints(foodTypeId))
  /\ LET pts == [points EXCEPT ![foodTypeId] = @ + foodPoints(foodTypeId)]
         res == checkEvolutions(activeEvolutions, foodTypeId, pts, evolveCallbacks)
         g == RunObservers(Scene, res.log, 1, activeEvolutions)
     IN SetScene(g) /\ PairsAfter(g)
  /\ UNCHANGED <<variant, uiVars>>

\* the loop of handleFoodPickup that does not skip the collected items
foodMatchAlsoCollected(sensor, collected) ==
  LET ok == {k \in 1..Len(FoodItemList) : FoodNear(sensor, FoodItemList[k])}
  IN IF ok = {} THEN NULL
     ELSE FoodItemList[CHOOSE k \in ok : \A l \in ok : k <= l]

\* the loop of handleFoodPickup: the first item of the list that is not
\* collected and lies within 40 px of the sensor
foodMatch(sensor, collected) ==
  LET ok == {k \in 1..Len(FoodItemList) :
               /\ FoodItemList[k] \notin collected
               /\ FoodNear(sensor, FoodItemList[k])}
  IN IF ok = {} THEN NULL
     ELSE FoodItemList[CHOOSE k \in ok : \A l \in ok : k <= l]

\* collisionstart with the sensor of a food item of the stage (chain
\* variant), as often as the player enters it
CollisionStartFoodItem(sensor) ==
  /\ variant = "chain"
  /\ ~physicsPaused
  /\ LET fi == foodMatch(sensor, foodCollected) IN
       IF fi = NULL THEN UNCHANGED <<feedVars, sceneVars, envVars>>
       ELSE LET type == FoodTypeOf[fi]
                pts == [points EXCEPT ![type] = @ + foodPoints(type)]
                res == checkEvolutions(activeEvolutions, type, pts, evolveCallbacks)
                g == RunObservers([Scene EXCEPT !.foodCollected = @ \cup {fi}],
                                  res.log, 1, activeEvolutions)
            IN /\ consume(type, foodPoints(type))
               /\ SetScene(g)
               /\ PairsAfter(g)
  /\ UNCHANGED <<variant, uiVars>>

\* collisionstart with the death zone
CollisionStartDeathZone ==
  /\ ~physicsPaused
  /\ SetScene(die([Scene EXCEPT !.playerHP = 0]))
  /\ UNCHANGED <<variant, feedVars, uiVars, envVars>>

\* collisionstart with a goal
CollisionStartGoal ==
  /\ ~physicsPaused
  /\ SetScene(handleVictory(Scene))
  /\ UNCHANGED <<variant, feedVars, uiVars, envVars>>

\* the HP after a recovery pickup, without the cap
recoveredHPNoCap(hp, max) == hp + RECOVERY_AMOUNT

\* Math.min(this.stats.maxHp, this.playerHP + C.RECOVERY_AMOUNT)
recoveredHP(hp, max) == Min(max, hp + RECOVERY_AMOUNT)

\* collisionstart with a recovery sensor: handleRecoveryPickup finds the
\* unused point r
CollisionStartRecovery(r) ==
  /\ ~physicsPaused
  /\ r \in RecoveryIds \ recoveryUsed
  /\ SetScene([Scene EXCEPT !.recoveryUsed = @ \cup {r},
                            !.playerHP = recoveredHP(playerHP, maxHp(Evo))])
  /\ UNCHANGED <<variant, feedVars, uiVars, envVars>>

\* collisionstart with an evolution item sensor (tree variant):
\* handleEvoItemPickup finds the item e that is not collected and opens the
\* selection overlay
CollisionStartEvoItem(e) ==
  /\ variant = "tree"
  /\ ~physicsPaused
  /\ e \in EvoItemIds \ evoCollected
  /\ ShowOn([Scene EXCEPT !.evoCollected = @ \cup {e}])
  /\ UNCHANGED <<tree, unlockedNodes>>
  /\ UNCHANGED <<variant, feedVars, envVars>>

(***************************************************************************)
(* Initial states.                                                         *)
(***************************************************************************)
InitFeeding(cbs) ==
  /\ points = [t \in FoodTypeIds |-> 0]
  /\ activeEvolutions = {}
  /\ evolveCallbacks = cbs
  /\ lastNotified = <<>>
  /\ badInsert = {}

InitTreeUI ==
  /\ unlockedNodes = {}
  /\ container = FALSE
  /\ cards = <<>>
  /\ selectedIndex = 0
  /\ onComplete = FALSE

\* the scene's fields are those of g, the player is at y in contact with surf
InitWorld(g, y, surf) ==
  /\ grappleState = g.grappleState
  /\ grappleConstraint = g.grappleConstraint
  /\ grappleTarget = g.grappleTarget
  /\ ropeLength = g.ropeLength
  /\ world = g.world
  /\ badRemove = g.badRemove
  /\ playerBody = g.playerBody
  /\ currentStretchFactor = g.currentStretchFactor
  /\ isChargingJump = g.isChargingJump
  /\ playerHP = g.playerHP
  /\ isDead = g.isDead
  /\ groundContacts = g.groundContacts
  /\ wasGrounded = g.wasGrounded
  /\ peakY = g.peakY
  /\ lastFall = g.lastFall
  /\ lastJump = g.lastJump
  /\ fakeHooks = g.fakeHooks
  /\ breakables = g.breakables
  /\ recordRunCalls = g.recordRunCalls
  /\ recoveryUsed = g.recoveryUsed
  /\ foodCollected = g.foodCollected
  /\ evoCollected = g.evoCollected
  /\ lastRestart = g.lastRestart
  /\ lastOpening = g.lastOpening
  /\ encyclopedia = g.encyclopedia
  /\ physicsPaused = g.physicsPaused
  /\ resumeTimers = g.resumeTimers
  /\ encyclopediaVisible = FALSE
  /\ now = 0
  /\ playerY = y
  /\ contacts = surf
  /\ counted = surf

\* the scene after create(): the chain scene registers its observer
InitScene ==
  /\ variant \in {"chain", "tree"}
  /\ InitFeeding(IF variant = "chain" THEN <<1>> ELSE <<>>)
  /\ InitTreeUI
  /\ tree = NoTree
  /\ InitWorld(NewScene, 0, {})

(***************************************************************************)
(* The evolution engines on their own: the chain engine under every        *)
(* sequence of deposits, the tree engine under every sequence of overlay   *)
(* openings, moves, confirmations and skips, for every tree.               *)
(***************************************************************************)
InitEvolution ==
  /\ variant \in {"chain", "tree"}
  /\ InitFeeding(<<>>)
  /\ InitTreeUI
  /\ tree \in IF variant = "tree" THEN TreeShapes ELSE {NoTree}
  /\ InitWorld(NewScene, 0, {})

NextEvolution ==
  \/ Consume
  \/ OnEvolve
  \/ Show
  \/ OnLeft
  \/ OnRight
  \/ OnConfirm
  \/ OnSkip

SpecEvolution == InitEvolution /\ [][NextEvolution]_vars

(***************************************************************************)
(* FeedingSystem.consume under every caller: the amount is any number, a   *)
(* zero or a negative one included; one observer is registered.            *)
(***************************************************************************)
AnyAmounts == {-10, -1, 0, 1, 10, 15}

InitAnyAmount ==
  /\ variant = "chain"
  /\ InitFeeding(<<1>>)
  /\ InitTreeUI
  /\ tree = NoTree
  /\ InitWorld(NewScene, 0, {})

ConsumeAny ==
  /\ \E foodTypeId \in FoodTypeIds, amount \in AnyAmounts :
       /\ points[foodTypeId] + amount \in -MaxDebt..MaxPoints
       /\ consume(foodTypeId, amount)
  /\ UNCHANGED <<variant, uiVars, sceneVars, envVars>>

SpecAnyAmount == InitAnyAmount /\ [][ConsumeAny]_vars

(***************************************************************************)
(* The grapple: clicks, wheel, keys, food pickups (chain), decoy timeouts  *)
(* (tree), death and victory, up to the end of the run; the player makes   *)
(* no ground contact.                                                      *)
(***************************************************************************)
Views == [HookSet -> Sightings]

\* no hook is in range
NothingInSight == [h \in HookSet |-> [dist |-> 450, angleDiff |-> 1200]]

\* a click during the run; what the player sees matters only to one that fires
Click ==
  /\ ~isDead
  /\ \E buttons \in {"left", "right", "both"} :
       \E view \in (IF buttons # "right" /\ grappleState = "idle"
                    THEN Views ELSE {NothingInSight}) :
         PointerDown(buttons, view)

Scroll == \E up \in BOOLEAN : Wheel(up)

UpdateGrapple ==
  \E delta \in Deltas, justDown, up, down \in BOOLEAN :
    /\ variant = "tree" => now + delta <= MaxTime
    /\ Update(delta, justDown, justDown, up, down, playerY)

PickupFood == \E foodTypeId \in FoodTypeIds : CollisionStartFood(foodTypeId)

\* only the chain scene reads the encyclopedia overlay's flag
Tab == variant = "chain" /\ ToggleEncyclopedia

NextGrapple ==
  \/ Click
  \/ Scroll
  \/ Tab
  \/ UpdateGrapple
  \/ PickupFood
  \/ ResumeTimer
  \/ CollisionStartDeathZone
  \/ CollisionStartGoal

SpecGrapple == InitScene /\ [][NextGrapple]_vars

(***************************************************************************)
(* Ground contacts and fall tracking: the engine reports every pair's      *)
(* begin once and its end once.                                            *)
(***************************************************************************)
\* heights the player is seen at by update()
GroundYs == {0, 150, 400}

ContactBegins == \E s \in Surfaces, above \in BOOLEAN : CollisionStartSurface(s, above)

ContactEnds == \E s \in Surfaces : CollisionEndSurface(s)

UpdateGround ==
  \E delta \in Deltas, y \in (IF physicsPaused THEN {playerY} ELSE GroundYs) :
    /\ variant = "tree" => now + delta <= MaxTime
    /\ Update(delta, FALSE, FALSE, FALSE, FALSE, y)

NextGround ==
  \/ ContactBegins
  \/ ContactEnds
  \/ UpdateGround

SpecGround == InitScene /\ [][NextGround]_vars

\* the same, with contact ends that are duplicated or have no begin
DuplicateEnds == \E s \in Surfaces : SpuriousCollisionEnd(s)

NextGroundAnyOrder ==
  \/ ContactBegins
  \/ ContactEnds
  \/ DuplicateEnds
  \/ UpdateGround

SpecGroundAnyOrder == InitScene /\ [][NextGroundAnyOrder]_vars

(***************************************************************************)
(* One landing: the player, airborne since height 0, touches a platform at *)
(* any height down to MaxFall, and update() runs.                          *)
(***************************************************************************)
InitFall ==
  /\ variant \in {"chain", "tree"}
  /\ InitFeeding(IF variant = "chain" THEN <<1>> ELSE <<>>)
  /\ InitTreeUI
  /\ tree = NoTree
  /\ \E y \in 0..MaxFall :
       InitWorld([NewScene EXCEPT !.groundContacts = 1, !.wasGrounded = FALSE], y, {"p1"})

UpdateFall ==
  \E delta \in Deltas :
    /\ variant = "tree" => now + delta <= MaxTime
    /\ Update(delta, FALSE, FALSE, FALSE, FALSE, playerY)

NextFall == UpdateFall

SpecFall == InitFall /\ [][NextFall]_vars

(***************************************************************************)
(* One landing from any peak with any HP: the player, airborne since       *)
(* height peakY with HP playerHP, touches a platform and update() runs.    *)
(***************************************************************************)
\* peaks the fall starts from
LandingPeaks == {0, 100}
\* HP the player lands with
LandingHPs == {MAX_HP, 60, 12}

InitLanding ==
  /\ variant \in {"chain", "tree"}
  /\ InitFeeding(IF variant = "chain" THEN <<1>> ELSE <<>>)
  /\ InitTreeUI
  /\ tree = NoTree
  /\ \E peak \in LandingPeaks, hp \in LandingHPs, y \in 0..MaxFall :
       /\ y >= peak
       /\ InitWorld([NewScene EXCEPT !.groundContacts = 1, !.wasGrounded = FALSE,
                                     !.peakY = peak, !.playerHP = hp], y, {"p1"})

NextLanding == UpdateFall

SpecLanding == InitLanding /\ [][NextLanding]_vars

(***************************************************************************)
(* Whole runs: grapple, ground contacts and landings, pickups, the         *)
(* selection overlay (tree), death, victory and restart.                   *)
(***************************************************************************)
\* heights the player is seen at by update() during a run
RunYs == {0, 400, 1100}

\* a tree with two roots: root and shell; tendon and forelimb follow root
RunTree ==
  [n \in TreeNodes |-> IF n \in {"tendon", "forelimb"} THEN "root" ELSE NULL]

InitRun ==
  /\ variant \in {"chain", "tree"}
  /\ InitFeeding(IF variant = "chain" THEN <<1>> ELSE <<>>)
  /\ InitTreeUI
  /\ tree = IF variant = "tree" THEN RunTree ELSE NoTree
  /\ InitWorld(NewScene, 0, {})

\* h1 is 150 px away on the aim ray, nothing else is in range
HookAhead ==
  [h \in HookSet |-> IF h = "h1" THEN [dist |-> 150, angleDiff |-> 0]
                     ELSE [dist |-> 450, angleDiff |-> 1200]]

ClickRun == PointerDown("left", HookAhead)

ClickAlive == ~isDead /\ ClickRun

UpdateRun ==
  \E delta \in Deltas, y \in (IF physicsPaused THEN {playerY} ELSE RunYs) :
    /\ variant = "tree" => now + delta <= MaxTime
    /\ Update(delta, FALSE, FALSE, FALSE, FALSE, y)

LandOrLeave ==
  \/ \E above \in BOOLEAN : CollisionStartSurface("p1", above)
  \/ CollisionEndSurface("p1")

Pickups ==
  \/ \E r \in RecoveryIds : CollisionStartRecovery(r)
  \/ \E e \in EvoItemIds : CollisionStartEvoItem(e)

Overlay == OnLeft \/ OnRight \/ OnConfirm \/ OnSkip

NextRun ==
  \/ ClickAlive
  \/ UpdateRun
  \/ LandOrLeave
  \/ Pickups
  \/ Overlay
  \/ CollisionStartDeathZone
  \/ CollisionStartGoal

SpecRun == InitRun /\ [][NextRun]_vars

(***************************************************************************)
(* Runs and restarts: a run ends by death (death zone or landing) or by    *)
(* victory; a click on the end screen or the R key (chain) restarts.       *)
(***************************************************************************)
NextRestart ==
  \/ ClickRun
  \/ UpdateRun
  \/ UpdateRestart
  \/ LandOrLeave
  \/ CollisionStartDeathZone
  \/ CollisionStartGoal

SpecRestart == InitRun /\ [][NextRestart]_vars

\* the same runs, R being held in some ticks of either scene
UpdateWithR ==
  \E delta \in Deltas, y \in (IF physicsPaused THEN {playerY} ELSE RunYs) :
    /\ variant = "tree" => now + delta <= MaxTime
    /\ UpdateHoldingR(delta, y)

NextRestartKey ==
  \/ ClickRun
  \/ UpdateRun
  \/ UpdateWithR
  \/ LandOrLeave
  \/ CollisionStartDeathZone
  \/ CollisionStartGoal

SpecRestartKey == InitRun /\ [][NextRestartKey]_vars

(***************************************************************************)
(* Food (chain variant): the player enters the sensors of the food items   *)
(* in any order and as often as they like, and restarts with R.            *)
(***************************************************************************)
InitFood ==
  /\ variant = "chain"
  /\ InitFeeding(<<1>>)
  /\ InitTreeUI
  /\ tree = NoTree
  /\ InitWorld(NewScene, 0, {})

EnterFoodSensor ==
  \E k \in 1..Len(FoodItemList) : CollisionStartFoodItem(FoodItemList[k])

NextFood ==
  \/ EnterFoodSensor
  \/ UpdateRestart

SpecFood == InitFood /\ [][NextFood]_vars

(***************************************************************************)
(* Body swaps on the ground (chain variant): the player lands on platforms *)
(* from above, leaves them, and collects food there; the pause of an       *)
(* evolution ends by its timer.                                            *)
(***************************************************************************)
\* the player comes to stand on a platform
StandOn == \E s \in Surfaces : CollisionStartSurface(s, TRUE)

NextStretch ==
  \/ StandOn
  \/ ContactEnds
  \/ PickupFood
  \/ ResumeTimer

SpecStretch == InitFood /\ [][NextStretch]_vars

(***************************************************************************)
(* Firing: clicks with every view of the hooks, while the chain player     *)
(* collects sap up to the grapple evolution and the tree player unlocks    *)
(* nodes that lengthen the range.                                          *)
(***************************************************************************)
PickupSap == CollisionStartFood("sap")

PickupEvoItem == \E e \in EvoItemIds : CollisionStartEvoItem(e)

NextFire ==
  \/ Click
  \/ PickupSap
  \/ PickupEvoItem
  \/ Overlay
  \/ ResumeTimer

SpecFire == InitRun /\ [][NextFire]_vars

(***************************************************************************)
(* Jumps: the player lands on and leaves platforms, the chain player       *)
(* collects sap up to the jump evolutions, and the space key is pressed,   *)
(* held and let go from tick to tick.                                      *)
(***************************************************************************)
UpdateJump ==
  \E delta \in Deltas, justDown, isDown \in BOOLEAN :
    /\ justDown => isDown
    /\ variant = "tree" => now + delta <= MaxTime
    /\ Update(delta, justDown, isDown, FALSE, FALSE, playerY)

NextJump ==
  \/ UpdateJump
  \/ StandOn
  \/ ContactEnds
  \/ PickupSap
  \/ ResumeTimer

SpecJump == InitRun /\ [][NextJump]_vars

\* the same runs, the browser holding any localStorage entry at create()
InitStored ==
  /\ variant \in {"chain", "tree"}
  /\ InitFeeding(IF variant = "chain" THEN <<1>> ELSE <<>>)
  /\ InitTreeUI
  /\ tree = IF variant = "tree" THEN RunTree ELSE NoTree
  /\ \E stored \in StoredContents :
       InitWorld([NewScene EXCEPT !.encyclopedia = newEncyclopedia(stored)], 0, {})

SpecStored == InitStored /\ [][NextRestart]_vars

(***************************************************************************)
(* Decoy hooks (tree variant): clicks that fire at a real hook or at a     *)
(* decoy, or release; ticks of uneven length, with or without the space    *)
(* key.  Input arrives once frames run, scene.time.now being positive.     *)
(***************************************************************************)
\* frame times (ms) of the ticks
DecoyDeltas == {300, 700}

\* one hook is on the aim ray, a real one 150 px away or a decoy 120 px
\* away; the others are out of range
DecoyViews ==
  {[h \in HookSet |->
      IF h = near
      THEN [dist |-> IF h \in FakeHookIds THEN 120 ELSE 150, angleDiff |-> 0]
      ELSE [dist |-> 450, angleDiff |-> 1200]] : near \in HookSet}

InitDecoy ==
  /\ variant = "tree"
  /\ InitFeeding(<<>>)
  /\ InitTreeUI
  /\ tree = NoTree
  /\ InitWorld(NewScene, 0, {})

ClickDecoy ==
  /\ now > 0
  /\ \E buttons \in {"left", "right"} :
       \E view \in (IF buttons = "left" /\ grappleState = "idle"
                    THEN DecoyViews ELSE {NothingInSight}) :
         PointerDown(buttons, view)

\* a tick in which the space key is not pressed
TickNoJump ==
  \E delta \in DecoyDeltas :
    /\ now + delta <= MaxTime
    /\ Update(delta, FALSE, FALSE, FALSE, FALSE, playerY)

\* a tick in which the space key goes down
TickJump ==
  \E delta \in DecoyDeltas :
    /\ now + delta <= MaxTime
    /\ Update(delta, TRUE, TRUE, FALSE, FALSE, playerY)

NextDecoy ==
  \/ ClickDecoy
  \/ TickNoJump
  \/ TickJump

SpecDecoy == InitDecoy /\ [][NextDecoy]_vars

\* the same, in runs that end in the death zone or at the goal and are
\* restarted by a click
NextDecoyRun ==
  \/ ClickDecoy
  \/ TickNoJump
  \/ TickJump
  \/ CollisionStartDeathZone
  \/ CollisionStartGoal

SpecDecoyRun == InitDecoy /\ [][NextDecoyRun]_vars

(***************************************************************************)
(* The breakable platforms of the tree scene: the player steps on and off  *)
(* b1 (respawns) and b2 (does not), an evolution item opens the overlay,   *)
(* and the clock runs long enough for a collapse, a respawn and a fade-in. *)
(***************************************************************************)
BreakDeltas == {400}

InitBreakable ==
  /\ variant = "tree"
  /\ InitFeeding(<<>>)
  /\ InitTreeUI
  /\ tree = RunTree
  /\ InitWorld(NewScene, 0, {})

TouchBreakable == \E b \in BreakableIds : CollisionStartSurface(b, TRUE)

LeaveBreakable == \E b \in BreakableIds : CollisionEndSurface(b)

TickBreakable ==
  \E delta \in BreakDeltas :
    /\ now + delta <= MaxBreakTime
    /\ Update(delta, FALSE, FALSE, FALSE, FALSE, playerY)

OverlayOpens == \E e \in EvoItemIds : CollisionStartEvoItem(e)

\* a run that does not end
NextBreakable ==
  \/ TouchBreakable
  \/ LeaveBreakable
  \/ TickBreakable
  \/ OverlayOpens
  \/ OnSkip

SpecBreakable == InitBreakable /\ [][NextBreakable]_vars

\* a run that may end in the death zone or at the goal
NextBreakableRun ==
  \/ TouchBreakable
  \/ LeaveBreakable
  \/ TickBreakable
  \/ CollisionStartDeathZone
  \/ CollisionStartGoal

SpecBreakableRun == InitBreakable /\ [][NextBreakableRun]_vars

(***************************************************************************)
(* Claims about the evolution engines.                                     *)
(***************************************************************************)
NodesOfBranch(b) == {n \in ChainNodes : evolutionTree[n].branch = b}

\* C1: after every consume call the active evolutions of each branch are
\* exactly the nodes of that branch whose threshold is <= the pool total.
C1_ActiveIsThresholdPrefix ==
  \A b \in FoodTypeIds :
    activeEvolutions \cap NodesOfBranch(b) =
      {n \in NodesOfBranch(b) : evolutionTree[n].threshold <= points[b]}

\* the deposit that brought dust to exactly 10 unlocked stretch_1 in that call
C1_UnlockedOnReachingCall ==
  /\ points["dust"] = 10
  /\ \E i \in 1..Len(lastNotified) : lastNotified[i][2] = "stretch_1"

NotifiedNodes(log) == {log[i][2] : i \in 1..Len(log)}

\* the nodes of S as a sequence by ascending tier
SortByTier(S) ==
  CHOOSE s \in DistinctSeqs(S, Cardinality(S)) :
    \A i, j \in 1..Cardinality(S) :
      i < j => evolutionTree[s[i]].tier <= evolutionTree[s[j]].tier

\* every observer once per node, node by node in ascending tier
ExpectedNotifications(newNodes, cbs) ==
  LET sorted == SortByTier(newNodes)
      m == Len(cbs)
  IN [i \in 1..(Len(sorted) * m) |->
        <<cbs[((i - 1) % m) + 1], sorted[((i - 1) \div m) + 1]>>]

\* C2: a consume call notifies every registered observer exactly once per
\* newly unlocked node, lowest tier first, and only nodes that were not
\* active before; the active set never shrinks, so no node fires twice.
C2_NotifiedOncePerUnlockInTierOrder ==
  [][points' # points =>
       /\ lastNotified' =
            ExpectedNotifications(activeEvolutions' \ activeEvolutions, evolveCallbacks)
       /\ NotifiedNodes(lastNotified') \cap activeEvolutions = {}
       /\ activeEvolutions \subseteq activeEvolutions']_vars

\* one deposit crossed the three thresholds of a branch with two observers
C2_ThreeUnlocksTwoObservers ==
  /\ Len(evolveCallbacks) = 2
  /\ Len(lastNotified) = 6

\* C3: the unlocked set is closed under prerequisites: a chain node is
\* active only with its prev node active and was inserted with the pool at
\* or above its threshold; a tree node is unlocked only if its parent is
\* null or unlocked.
C3_UnlockedClosedUnderPrerequisite ==
  /\ \A n \in activeEvolutions :
       /\ evolutionTree[n].prev = NULL \/ evolutionTree[n].prev \in activeEvolutions
       /\ n \notin badInsert
  /\ \A n \in unlockedNodes : tree[n] = NULL \/ tree[n] \in unlockedNodes

\* a node with a parent has been unlocked through the overlay
C3_ChildUnlockedByConfirm ==
  /\ ~container
  /\ \E n \in unlockedNodes : tree[n] # NULL

(***************************************************************************)
(* Claims about the grapple.                                               *)
(***************************************************************************)
\* C4: the physics world holds at most one grapple constraint, the one that
\* grappleConstraint references; none is left in the world unreferenced, and
\* no removal is attempted on a constraint that is not in the world.
C4_OneReferencedConstraint ==
  /\ Cardinality(world) <= 1
  /\ \A c \in world : c.id = grappleConstraint
  /\ grappleConstraint # NULL => \E c \in world : c.id = grappleConstraint
  /\ ~badRemove

\* the run ended while the grapple had been in use: the world is empty
C4_ReleasedAtRunEnd ==
  /\ isDead
  /\ ropeLength > 0
  /\ grappleConstraint = NULL
  /\ world = {}

\* the grapple fields and the world's constraints
grappleFields == <<grappleState, grappleTarget, ropeLength, grappleConstraint, world>>

\* the pointerdown listener runs its grapple branch
ClickHandled == ~isDead /\ ~(variant = "chain" /\ encyclopediaVisible)

C6_RopeLengthWithinRange ==
  grappleState = "attached" =>
    /\ ropeLength >= MIN_ROPE_LENGTH
    /\ ropeLength <= grappleRange(Evo)

\* C7: every constraint in the world is on the current player body, and a
\* stretch body swap while attached leaves exactly one constraint, a new one
\* on the new body with the anchor and the rope length of before.
C7_SwapRehomesConstraint ==
  [][/\ \A c \in world' : c.bodyA = playerBody'
     /\ (playerBody' = playerBody + 1 /\ grappleState = "attached")
          => /\ grappleState' = "attached"
             /\ grappleTarget' = grappleTarget
             /\ ropeLength' = ropeLength
             /\ grappleConstraint' # grappleConstraint
             /\ world' = {[id |-> grappleConstraint', bodyA |-> playerBody',
                           pointB |-> grappleTarget, length |-> ropeLength]}]_vars

\* attached through two body swaps: the constraint is the third body's
C7_AttachedAfterSwap ==
  /\ grappleState = "attached"
  /\ playerBody = 3
  /\ grappleConstraint # "c1"
  /\ \E c \in world : c.bodyA = 3 /\ c.pointB = grappleTarget /\ c.length = ropeLength

(***************************************************************************)
(* Claims about ground contacts and fall damage.                           *)
(***************************************************************************)
\* C8: the ground-contact count is never negative, whatever the order of
\* contact begins and ends, duplicated and unmatched ends included.
C8_GroundContactsNonNegative == groundContacts >= 0

\* a counted contact is still active and ends without a begin have brought
\* the count down to 0
C8_UnmatchedEndAtZero ==
  /\ groundContacts = 0
  /\ counted # {}

\* C9: the ground-contact count equals the number of contacts that were
\* counted at their begin and have not ended.
C9_CountEqualsCountedContacts == groundContacts = Cardinality(counted)

\* the distance-to-damage map of trackFalling / applyFallDamage
DamageOfFall(d) ==
  IF d > FALL_THRESHOLD_SMALL THEN fallDamage(d, fallDamageMultiplier(Evo)) ELSE 0

\* C10: a landing's damage is 0 up to a fall of FALL_THRESHOLD_SMALL, 5 just
\* above it, 100 from a fall of 1000 on, and no shorter fall would have
\* done more damage.
C10_FallDamageMonotone ==
  lastFall # <<>> =>
    LET d == lastFall[1].dist
        damage == lastFall[1].damage
    IN /\ damage = DamageOfFall(d)
       /\ d <= FALL_THRESHOLD_SMALL => damage = 0
       /\ d = FALL_THRESHOLD_SMALL + 1 => damage = 5
       /\ d >= 1000 => damage = 100
       /\ \A e \in 0..d : DamageOfFall(e) <= damage

\* a landing at the large band's boundary
C10_LandingAtLargeBoundary ==
  /\ lastFall # <<>>
  /\ lastFall[1].dist = FALL_THRESHOLD_LARGE
  /\ lastFall[1].damage = 35
  /\ playerHP = MAX_HP - 35

\* C11: a landing from a fall of d in [FALL_THRESHOLD_MEDIUM,
\* FALL_THRESHOLD_LARGE) with multiplier 1 lowers HP by exactly
\* round(10 + (d - 300) / 300 * 25), floored at 0; from peak 100 to 450 with
\* HP 100 it leaves HP 86.
C11_MediumBandDamage ==
  [][LET d == playerY' - peakY IN
       (/\ ~isDead /\ ~wasGrounded /\ wasGrounded'
        /\ fallDamageMultiplier(Evo) = 100
        /\ d >= FALL_THRESHOLD_MEDIUM /\ d < FALL_THRESHOLD_LARGE)
         => /\ playerHP' = Max(0, playerHP - Round(10 * 300 + 25 * (d - 300), 300))
            /\ (peakY = 100 /\ playerY' = 450 /\ playerHP = MAX_HP) => playerHP' = 86]_vars

\* the landing of the example: peak 100, landing at 450, damage 14, HP 86
C11_LandedFrom100At450 ==
  /\ lastFall = <<[dist |-> 350, damage |-> 14]>>
  /\ peakY = 100
  /\ playerY = 450
  /\ playerHP = 86
  /\ ~isDead

(***************************************************************************)
(* Claims about whole runs.                                                *)
(***************************************************************************)
\* C12: in every reachable state 0 <= playerHP <= maxHp, across fall
\* damage, death-zone contact, recovery pickups and evolution selections.
C12_HPWithinBounds ==
  /\ playerHP >= 0
  /\ playerHP <= maxHp(Evo)

\* a recovery pickup after a landing that cost 18 HP: 82 + 25 capped at 100
C12_RecoveryCappedAtMax ==
  /\ recoveryUsed = RecoveryIds
  /\ lastFall = <<[dist |-> 400, damage |-> 18]>>
  /\ playerHP = MAX_HP
  /\ maxHp(Evo) = MAX_HP
  /\ ~isDead

\* C13: there is no reachable state with playerHP = 0 in which the run is
\* live: HP reaching 0 ends the run in the same step, with the grapple
\* released.
C13_ZeroHPIsDead ==
  playerHP = 0 =>
    /\ isDead
    /\ grappleState = "idle"
    /\ grappleConstraint = NULL
    /\ world = {}
    /\ recordRunCalls # <<>>

\* a landing took the last HP of a player who had used the grapple
C13_KilledByFall ==
  /\ playerHP = 0
  /\ isDead
  /\ lastFall # <<>>
  /\ lastFall[1].damage > 0
  /\ recordRunCalls = <<[cleared |-> FALSE, remainingHP |-> 0]>>
  /\ ropeLength > 0

\* C14: between create() and the next restart recordRun is called exactly
\* once: never twice, and no run is restarted without having been recorded.
C14_RecordedExactlyOncePerRun ==
  /\ Len(recordRunCalls) <= 1
  /\ lastRestart # <<>> => lastRestart[1] = 1

(***************************************************************************)
(* Claims about the gimmicks.                                              *)
(***************************************************************************)
\* C15: a grapple attached to a decoy and not released manually is released
\* by the decoy at the first tick at which FAKE_HOOK_DETACH_TIME has elapsed
\* since the attachment (no state is left attached to a decoy after that
\* tick), the grapple is then idle with no constraint, and a tick without
\* the space key never releases it earlier.
C15_DecoyReleasesAtDelay ==
  [][/\ \A f \in FakeHookIds :
          (grappleState' = "attached" /\ grappleTarget' = f)
            => /\ fakeHooks'[f].isTarget
               /\ fakeHooks'[f].attachedTime > 0
               /\ now' - fakeHooks'[f].attachedTime < FAKE_HOOK_DETACH_TIME
     /\ \A f \in FakeHookIds :
          (grappleState = "attached" /\ grappleTarget = f /\ TickNoJump)
            => IF now' - fakeHooks[f].attachedTime >= FAKE_HOOK_DETACH_TIME
               THEN /\ grappleState' = "idle"
                    /\ grappleConstraint' = NULL
                    /\ grappleTarget' = NULL
                    /\ world' = {}
               ELSE UNCHANGED <<grappleState, grappleTarget, grappleConstraint, world>>]_vars

\* idle with the rope length of a decoy attachment, the delay after the
\* first tick
C15_ReleasedByDecoy ==
  /\ now = 300 + FAKE_HOOK_DETACH_TIME
  /\ grappleState = "idle"
  /\ grappleConstraint = NULL
  /\ ropeLength = 120
  /\ \A f \in FakeHookIds : ~fakeHooks[f].isTarget

\* C16: after a manual release every decoy is back in its pre-attach state
\* (attachedTime 0, not a target), and no forced detach follows from a
\* released attachment: a grapple that is on a real hook afterwards is never
\* released by a tick without the space key.
C16_ManualReleaseResetsDecoy ==
  [][/\ grappleState' = "idle"
          => \A f \in FakeHookIds :
               fakeHooks'[f] = [attachedTime |-> 0, isTarget |-> FALSE]
     /\ (grappleState = "attached" /\ grappleTarget \in RealHooks /\ TickNoJump)
          => /\ UNCHANGED <<grappleState, grappleTarget, grappleConstraint, world>>
             /\ \A f \in FakeHookIds :
                  fakeHooks'[f] = [attachedTime |-> 0, isTarget |-> FALSE]]_vars

\* released from a decoy before the delay could have elapsed: every decoy
\* is in its pre-attach state
C16_DecoyReleasedEarly ==
  /\ grappleState = "idle"
  /\ ropeLength = 120
  /\ now < FAKE_HOOK_DETACH_TIME
  /\ \A f \in FakeHookIds : fakeHooks[f] = [attachedTime |-> 0, isTarget |-> FALSE]

\* C17: a breakable platform that entered warning is collapsed by the first
\* update at which BREAKABLE_COLLAPSE_TIME has passed since the contact, so
\* no platform is ever in warning with that much time behind it, whatever
\* happened after the contact (leaving, dying, winning, an overlay).
C17_CollapsesOnSchedule ==
  \A b \in BreakableIds :
    breakables[b].state = "warning"
      => now - breakables[b].stateTime < BREAKABLE_COLLAPSE_TIME

\* C18: the state of a breakable platform changes only from solid to warning
\* (in a step that begins a contact with it), from warning to collapsed,
\* from collapsed to respawning (respawnable platforms only) and from
\* respawning to solid; a step that begins or ends a contact with a platform
\* that is not solid changes neither its state nor its stateTime.
C18_OnlyAlongTheCycle ==
  [][\A b \in BreakableIds :
       LET p == breakables[b]
           q == breakables'[b]
       IN /\ p.state # q.state =>
               \/ p.state = "solid" /\ q.state = "warning" /\ b \in contacts' \ contacts
               \/ p.state = "warning" /\ q.state = "collapsed"
               \/ p.state = "collapsed" /\ q.state = "respawning" /\ b \in Respawnable
               \/ p.state = "respawning" /\ q.state = "solid"
          /\ ((b \in contacts) # (b \in contacts')) /\ p.state # "solid" =>
               q.state = p.state /\ q.stateTime = p.stateTime]_vars

\* b1 was left and touched again while in warning, time having passed
C18_TouchedAgainInWarning ==
  /\ breakables["b1"].state = "warning"
  /\ breakables["b1"].stateTime < now
  /\ "b1" \in contacts
  /\ ~breakables["b1"].playerOnIt

C20_OpeningEndsOnce ==
  IF lastOpening = <<>> THEN ~container
  ELSE LET o == lastOpening[1]
           gained == unlockedNodes \ o.before
       IN IF container
          THEN /\ o.completions = 0
               /\ onComplete
               /\ physicsPaused
               /\ {cards[i] : i \in DOMAIN cards} = o.offered
               /\ unlockedNodes = o.before
          ELSE /\ o.completions = 1
               /\ ~onComplete
               /\ ~physicsPaused
               /\ o.before \subseteq unlockedNodes
               /\ gained \subseteq o.offered
               /\ Cardinality(gained) <= 1

\* an opening that offered several cards ended with one of them unlocked
C20_OneOfSeveralUnlocked ==
  /\ lastOpening # <<>>
  /\ ~container
  /\ Cardinality(lastOpening[1].offered) >= 2
  /\ Cardinality(unlockedNodes \ lastOpening[1].before) = 1
  /\ lastOpening[1].before # {}

\* C21: from show until close nothing of the play moves: in every step
\* taken with the overlay up before and after it, the grapple state, the
\* rope length and the HP stay as they are and no decoy or breakable
\* platform changes its state.
C21_OverlayFreezesPlay ==
  [][container /\ container' =>
       /\ grappleState' = grappleState
       /\ ropeLength' = ropeLength
       /\ playerHP' = playerHP
       /\ fakeHooks' = fakeHooks
       /\ \A b \in BreakableIds : breakables'[b].state = breakables[b].state]_vars

\* C22: the cards of an opening are pairwise distinct, every one of them is
\* in the array getAvailable returned for the nodes unlocked at the opening,
\* and they number min(3, length of that array).
C22_CardsAreDistinctAvailable ==
  container =>
    LET available == getAvailable(tree, lastOpening[1].before)
    IN /\ \A i, j \in 1..Len(cards) : i # j => cards[i] # cards[j]
       /\ \A i \in 1..Len(cards) :
            \E k \in 1..Len(available) : cards[i] = available[k]
       /\ Len(cards) = Min(3, Len(available))

\* three cards are offered out of four available nodes
C22_ThreeOfFourOffered ==
  /\ container
  /\ Len(cards) = 3
  /\ Len(getAvailable(tree, unlockedNodes)) = 4

\* C23: for the scene's tree and every set of unlocked nodes, the array
\* getAvailable builds holds each node that is not unlocked and whose
\* parent is null or unlocked exactly once and nothing else; the unlocked
\* set changes only in a step that closes the overlay, never in one that
\* opens it and so calls getAvailable.
C23_AvailableIsLockedWithOpenParent ==
  /\ [](\A unlocked \in SUBSET TreeNodes :
         LET available == getAvailable(tree, unlocked)
         IN /\ {available[k] : k \in 1..Len(available)} =
                 {n \in TreeNodes :
                    n \notin unlocked /\ (tree[n] = NULL \/ tree[n] \in unlocked)}
            /\ \A k, l \in 1..Len(available) : k # l => available[k] # available[l])
  /\ [][unlockedNodes' # unlockedNodes => container /\ ~container']_vars

\* the overlay was opened on a tree in which a child of an unlocked node
\* is available and a child of a locked node is not
C23_OpenedBelowAnUnlockedNode ==
  /\ container
  /\ unlockedNodes # {}
  /\ \E k \in 1..Len(getAvailable(tree, unlockedNodes)) :
       tree[getAvailable(tree, unlockedNodes)[k]] \in unlockedNodes
  /\ \E n \in TreeNodes : tree[n] # NULL /\ tree[n] \notin unlockedNodes

(***************************************************************************)
(* Claims about the callers of the engines.                                *)
(***************************************************************************)
\* C24: whatever amount consume is called with, no pool total decreases
\* and none is negative: a call with amount <= 0 changes nothing.
C24_PoolsNeverDecrease ==
  [][\A t \in FoodTypeIds : points'[t] >= points[t] /\ points'[t] >= 0]_vars

C26_MissChangesNothing ==
  grappleState = "idle" /\ ~isDead =>
    \A view \in Views :
      (\A h \in HookSet :
         \/ view[h].dist > grappleRange(Evo)
         \/ view[h].angleDiff > GRAPPLE_AIM_CONE)
      => fireGrapple(Scene, view, Evo, now) = Scene

\* the player of the tree scene can fire again after an earlier attachment
\* at 150 px, the decoys being at rest
C26_IdleAgainAfterAttachment ==
  /\ variant = "tree"
  /\ grappleState = "idle" /\ ~isDead
  /\ ropeLength = 150
  /\ \A f \in FakeHookIds : fakeHooks[f] = [attachedTime |-> 0, isTarget |-> FALSE]

(***************************************************************************)
(* Claims about the encyclopedia.                                          *)
(***************************************************************************)
\* C27: whatever the localStorage entry holds, this.data is the default
\* empty state unless the entry is a valid EncyclopediaData, and no
\* recordRun at death or victory raises an error into the scene.
C27_CorruptEntryFallsBack ==
  /\ ~encyclopedia.raised
  /\ encyclopedia.stored # "valid" => encyclopedia.data = "default"

\* C28: each pool total is the sum of the point values of the collected
\* items of its type, and a step collects at most one item, which was not
\* collected before, adding its point value to the pool of its type and
\* nothing to the other; entering a sensor again adds nothing.
C28_PoolIsSumOfCollected ==
  /\ [](\A t \in FoodTypeIds :
         points[t] =
           foodPoints(t) * Cardinality({i \in foodCollected : FoodTypeOf[i] = t}))
  /\ [][\/ foodCollected' = {}
        \/ /\ foodCollected \subseteq foodCollected'
           /\ Cardinality(foodCollected' \ foodCollected) <= 1
           /\ \A i \in foodCollected' \ foodCollected :
                points' = [points EXCEPT ![FoodTypeOf[i]] = @ + foodPoints(FoodTypeOf[i])]
           /\ foodCollected' = foodCollected => points' = points]_vars

\* every item is collected, the spawned dust and its neighbour included
C28_AllCollected ==
  /\ Cardinality(foodCollected) = Len(FoodItemList)
  /\ points["dust"] = 4 /\ points["sap"] = 6

\* C29: the three grapple fields agree in every state: the state is
\* attached exactly when a constraint is referenced and exactly when an
\* anchor is set, and then the referenced constraint is in the world with
\* length ropeLength and its anchor point at the target hook.
C29_GrappleFieldsAgree ==
  /\ grappleState \in {"idle", "attached"}
  /\ grappleState = "attached" <=> grappleConstraint # NULL
  /\ grappleState = "attached" <=> grappleTarget # NULL
  /\ grappleState = "attached" =>
       \E c \in world : /\ c.id = grappleConstraint
                        /\ c.length = ropeLength
                        /\ c.pointB = grappleTarget

\* attached with a rope reeled to a length that is no hook's distance
C29_AttachedAndReeled ==
  /\ grappleState = "attached"
  /\ \A v \in Sightings : ropeLength # v.dist
  /\ \E c \in world : c.id = grappleConstraint /\ c.length = ropeLength

(***************************************************************************)
(* Claims about the end of a run                                           *)
(***************************************************************************)
\* C30: once the run has ended (isDead), no step changes playerHP, the
\* pools, the unlocked nodes and active evolutions, the used and collected
\* flags of the pickups or the player body.
C30_EndedRunIsFrozen ==
  [][isDead /\ isDead' =>
       /\ playerHP' = playerHP
       /\ points' = points
       /\ unlockedNodes' = unlockedNodes
       /\ activeEvolutions' = activeEvolutions
       /\ recoveryUsed' = recoveryUsed
       /\ foodCollected' = foodCollected
       /\ evoCollected' = evoCollected
       /\ playerBody' = playerBody]_vars

(***************************************************************************)
(* Claims about the ground-contact count across a body swap                *)
(***************************************************************************)
\* C31: the ground-contact count equals the number of surfaces supporting
\* the current player body, also after a stretch evolution has replaced the
\* body, so it is zero whenever the player touches no platform.
C31_CountFollowsTheNewBody ==
  /\ groundContacts = Cardinality(counted)
  /\ contacts = {} => groundContacts = 0

(***************************************************************************)
(* Claims about releasing the grapple                                      *)
(***************************************************************************)
\* the grapple of scene g is idle, with no anchor and no constraint
Released(g) ==
  /\ g.grappleState = "idle"
  /\ g.grappleTarget = NULL
  /\ g.grappleConstraint = NULL
  /\ g.world = {}

\* C32: every release leaves the grapple idle with no anchor and no
\* constraint in the world: the release of a click, the jump-release of the
\* space key, the detach of a decoy whose time is up, death and victory; an
\* idle grapple has no anchor and no constraint, and once the run has ended
\* the grapple is idle.
C32_ReleaseLeavesNothing ==
  /\ [](grappleState = "idle" => Released(Scene))
  /\ [](isDead => grappleState = "idle")
  /\ [](/\ Released(releaseGrapple(Scene))
        /\ Released(die(Scene))
        /\ Released(handleVictory(Scene))
        /\ grappleState = "attached" =>
             Released(handleSpaceKey(Scene, TRUE, TRUE, Evo))
        /\ \A delta \in Deltas :
             variant = "tree" /\ DetachingHook(fakeHooks, now + delta) # NULL =>
               Released(gimmicksUpdate(Scene, now + delta)))
  /\ [][grappleState = "attached" /\ grappleState' # "attached" =>
         /\ grappleState' = "idle"
         /\ grappleTarget' = NULL
         /\ grappleConstraint' = NULL
         /\ world' = {}]_vars

\* the run ended while the rope of this run was out, and the grapple is idle
C32_EndedAfterSwinging ==
  /\ isDead
  /\ lastRestart = <<>>
  /\ ropeLength > 0
  /\ Released(Scene)

(***************************************************************************)
(* Claims about the choice of the hook                                     *)
(***************************************************************************)
\* the place of hook h in this.hookPoints
HookIndex(h) == CHOOSE i \in 1..Len(hookPoints) : hookPoints[i] = h

C34_FallCountsFromLastTakeOff ==
  [][/\ (lastFall' # lastFall /\ lastFall' # <<>>) =>
          /\ ~wasGrounded /\ wasGrounded'
          /\ lastFall'[1].dist = playerY' - peakY
     /\ (playerHP' < playerHP /\ playerHP' # 0) =>
          /\ ~wasGrounded /\ wasGrounded'
          /\ lastFall' # <<>>
          /\ playerHP' = playerHP - lastFall'[1].damage
     /\ (wasGrounded /\ ~wasGrounded') => peakY' = playerY'
     /\ (~wasGrounded /\ ~wasGrounded' /\ ~isDead) =>
          peakY' = Min(peakY, playerY')]_vars

\* the second landing of a run: down to 400 first, off again from there and
\* down to 1100, counted as a fall of 700
C34_SecondLandingFromItsOwnPeak ==
  /\ ~isDead
  /\ wasGrounded
  /\ peakY = 400
  /\ playerY = 1100
  /\ lastFall # <<>>
  /\ lastFall[1].dist = 700

(***************************************************************************)
(* Claims about the decoys' flags                                          *)
(***************************************************************************)
\* C35: at most one decoy is a target; a decoy is a target exactly when its
\* attach time is set, and only while the grapple is attached with that
\* decoy as its anchor.
C35_OnlyTheAnchorIsTarget ==
  /\ Cardinality({f \in FakeHookIds : fakeHooks[f].isTarget}) <= 1
  /\ \A f \in FakeHookIds :
       /\ fakeHooks[f].isTarget <=> fakeHooks[f].attachedTime > 0
       /\ fakeHooks[f].isTarget => grappleState = "attached" /\ grappleTarget = f

\* late in the run the rope is on the second decoy, which alone is a target
C35_SecondDecoyAfterTheFirst ==
  /\ grappleState = "attached"
  /\ grappleTarget = "f2"
  /\ fakeHooks["f2"].isTarget
  /\ ~fakeHooks["f1"].isTarget
  /\ now >= FAKE_HOOK_DETACH_TIME + 600

\* C36: the decoys' update releases the grapple only when it is attached to
\* a decoy whose delay has run out, never one on a hook of the stage; every
\* new attachment to a decoy is stamped with the time of that attachment,
\* the stamp stays while the attachment lasts, and a tick without the space
\* key releases it only when FAKE_HOOK_DETACH_TIME has passed since that
\* stamp.
C36_DecoyReleasesOnlyItsOwnRope ==
  /\ [](\A delta \in DecoyDeltas :
          LET f == DetachingHook(fakeHooks, now + delta) IN
            f # NULL => /\ grappleState = "attached"
                        /\ grappleTarget = f
                        /\ now + delta - fakeHooks[f].attachedTime >= FAKE_HOOK_DETACH_TIME)
  /\ [][/\ (grappleState = "attached" /\ grappleTarget \in RealHooks /\ TickNoJump)
             => grappleState' = "attached" /\ grappleTarget' = grappleTarget
        /\ \A f \in FakeHookIds :
             /\ (grappleState = "idle" /\ grappleState' = "attached" /\ grappleTarget' = f)
                  => fakeHooks'[f].attachedTime = now'
             /\ (grappleState = "attached" /\ grappleTarget = f
                   /\ grappleState' = "attached" /\ grappleTarget' = f)
                  => fakeHooks'[f].attachedTime = fakeHooks[f].attachedTime
             /\ (grappleState = "attached" /\ grappleTarget = f
                   /\ grappleState' = "idle" /\ TickNoJump)
                  => now' - fakeHooks[f].attachedTime >= FAKE_HOOK_DETACH_TIME]_vars

\* on a decoy, stamped this very tick, at a time when a countdown begun at
\* the first tick would have run out
C36_FreshStampLate ==
  /\ grappleState = "attached"
  /\ grappleTarget \in FakeHookIds
  /\ fakeHooks[grappleTarget].attachedTime = now
  /\ now >= 300 + FAKE_HOOK_DETACH_TIME

(***************************************************************************)
(* Claims about jumping                                                    *)
(***************************************************************************)
\* C37: a jump, plain or charged, is made only in a tick in which the
\* player is grounded; a charge whose key is let go, or still held, in the
\* air ends without a jump.
C37_JumpsOnlyFromTheGround ==
  lastJump # <<>> => lastJump[1].grounded

(***************************************************************************)
(* Claims about the bodies of the breakable platforms                      *)
(***************************************************************************)
\* C38: the body of a breakable platform is at its stage position exactly
\* when the platform is solid or in warning, and away from the playable area
\* when it is collapsed or respawning; a contact with the player begins only
\* on a body at its stage position.
C38_BodyAtHomeIffSolidOrWarning ==
  /\ [](\A b \in BreakableIds :
         /\ breakables[b].state \in {"solid", "warning", "collapsed", "respawning"}
         /\ breakables[b].bodyAtHome <=> breakables[b].state \in {"solid", "warning"})
  /\ [][\A b \in BreakableIds :
         b \in contacts' \ contacts =>
           breakables[b].state \in {"solid", "warning"}]_vars

\* b1 fades in, its body still away, while b2 is in warning under the player
C38_FadingInAway ==
  /\ breakables["b1"].state = "respawning"
  /\ ~breakables["b1"].bodyAtHome
  /\ breakables["b2"].state = "warning"
  /\ breakables["b2"].bodyAtHome
  /\ "b2" \in contacts

(***************************************************************************)
(* Claims about restarting                                                 *)
(***************************************************************************)
\* C39: once the run has ended, a tick with R held restarts the scene, as a
\* click does; a restart leaves HP at maxHp, the grapple idle, the ground
\* contact count 0, the pools at zero and nothing unlocked.
C39_RRestartsAnEndedRun ==
  [][/\ (isDead /\ (UpdateWithR \/ ClickRun)) => ~isDead'
     /\ (isDead /\ ~isDead') =>
          /\ playerHP' = maxHp({})
          /\ grappleState' = "idle"
          /\ grappleTarget' = NULL
          /\ grappleConstraint' = NULL
          /\ groundContacts' = 0
          /\ points' = [t \in FoodTypeIds |-> 0]
          /\ activeEvolutions' = {}
          /\ unlockedNodes' = {}]_vars

====
